---------------------------- MODULE Spec2Model ----------------------------
(***************************************************************************)
(* A model of the Azimuth runtime: the operand stack and its frames        *)
(* (engine/stack.rs), the opcode dispatch table and its handlers           *)
(* (engine/opcode_handler.rs, engine/opcodes.rs), the Runner loop          *)
(* (engine/mod.rs) and the buddy allocator (memory/allocators/general.rs). *)
(*                                                                         *)
(* A Rust panic (a failed assert!, an index past the end of a Vec, an      *)
(* integer division by zero, panic!) ends the process: the model records   *)
(* it in `panicked` and nothing happens afterwards.                        *)
(***************************************************************************)
EXTENDS Integers, Sequences, FiniteSets, TLC

VARIABLES
    stack,      \* Stack.stack: the backing Vec<StackEntry>, indexed from 0
    frames,     \* the chain of live StackFrames, the active one last
    last,       \* the last call made and what it returned
    panicked,   \* TRUE once the process has panicked
    overflow_checks, \* the build: TRUE when arithmetic overflow panics
                     \* (debug), FALSE when it wraps (release)
    bytecode,   \* the slice the last exec_instruction was given
    result,     \* what the last exec_instruction returned
    loader,     \* the Loader the Runner was built on
    pc,         \* Runner::run: the program counter
    run,        \* Runner::run: where it is, and what it returned
    freelists,  \* GeneralAllocator.freelists: the head of each order's list
    headers,    \* the BlockHeader.next written at each block of the region
    live,       \* the allocations handed out and not yet given back
    pushed,     \* history: the values pushed on the frame and not yet
                \* popped, the oldest first
    image,      \* the bytes FileLayout::from_bytes is given
    layout,     \* what FileLayout::from_bytes returned
    made,       \* Runnable::from_parsed_data: its arguments and what it
                \* returned
    arena,      \* an ArenaAllocator, and the regions it has handed out
    heap        \* a Heap, and the pointers it has handed out

frameVars == <<stack, frames>>
execVars == <<overflow_checks, bytecode, result>>
runVars == <<loader, pc, run>>
\* What the operations of a frame leave alone.
buddyVars == <<freelists, headers, live>>
parseVars == <<image, layout, made>>
memVars == <<arena, heap>>
otherThanFrames == <<execVars, runVars, buddyVars, pushed, parseVars, memVars>>
vars == <<stack, frames, last, panicked, execVars, runVars, buddyVars, pushed,
         parseVars, memVars>>

---------------------------------------------------------------------------
(* Bounds of the model. *)

\* Stack::new(capacity): the capacity of the backing Stack.
StackCap == 2
\* The largest locals_size and the largest stack_size a frame is asked for.
MaxFrameArg == 2
\* The deepest chain of nested frames.
MaxDepth == 3
\* Executing one instruction: the capacity of the Stack, and the most
\* entries already on the operand stack.
ExecStackCap == 4
MaxPreload == 2
\* Running a program: the capacity of the Stack and the longest bytecode.
RunStackCap == 4
MaxCodeLen == 3
\* The buddy allocator: GeneralAllocator::<DEPTH> over a region of
\* 2^CapacityLog2 bytes.
DEPTH == 4
CapacityLog2 == 7
\* The most allocations the client holds at once.
MaxLive == 2
\* Pushing and popping on one frame: the capacity of the Stack.
LifoStackCap == 3
\* Parsing an image: the most function records written in it.
MaxFunctions == 1
\* Making a Runnable: the most directives of the function.
MaxDirectives == 3
\* The arena: its capacity in bytes, and the most regions it hands out
\* between two release_all calls.
ArenaCapacity == 16
MaxGiven == 3
\* The heap: the most pointers it hands out in a run.
MaxHanded == 3

---------------------------------------------------------------------------
(* StackEntry = u64.  A 64-bit word is held as its four 16-bit limbs, the  *)
(* least significant first: <<w0, w1, w2, w3>> is w0 + w1*2^16 + w2*2^32   *)
(* + w3*2^48.                                                              *)

LIMB == 65536
Limbs == 4

\* The word of a number below 2^16 (u64::from of a small value).
Word(n) == <<n, 0, 0, 0>>

ZeroEntry == Word(0)

\* The entries the frame operations are called with: 1 and 1 << 33
\* (the value of stack_tests::stack_frame_doubles).
FrameValues == {Word(1), <<0, 0, 2, 0>>}

\* Option<StackEntry> and bool results, in one shape.
None == [some |-> FALSE, val |-> ZeroEntry]
Some(v) == [some |-> TRUE, val |-> v]
Bool(b) == [some |-> b, val |-> ZeroEntry]

NoCall == [op |-> "none", ret |-> None]
Call(op, ret) == [op |-> op, ret |-> ret]

---------------------------------------------------------------------------
(* 64-bit arithmetic on words, as the Rust operators of u64 and i64        *)
(* compute it.  Each operator gives the wrapped result and whether the     *)
(* exact result does not fit (`overflow`): with overflow checks compiled   *)
(* in, the operator panics there; without, it wraps.                       *)

LimbIdx == 1..Limbs
MaxLimb == LIMB - 1

RECURSIVE Pow2(_)
Pow2(n) == IF n = 0 THEN 1 ELSE 2 * Pow2(n - 1)

\* The word whose limb i is F(i).
MkWord(F(_)) == <<F(1), F(2), F(3), F(4)>>

IsZeroWord(a) == \A i \in LimbIdx : a[i] = 0

\* The limb of `a` at position i, and `fill` outside the word.
LimbAt(a, i, fill) == IF i \in LimbIdx THEN a[i] ELSE fill

\* a < b as unsigned numbers, comparing from the most significant limb.
RECURSIVE LessFrom(_, _, _)
LessFrom(a, b, i) ==
    IF i = 0 THEN FALSE
    ELSE IF a[i] # b[i] THEN a[i] < b[i]
    ELSE LessFrom(a, b, i - 1)

WordLess(a, b) == LessFrom(a, b, Limbs)

\* u64 addition: limb by limb with the carry.
WordAdd(a, b) ==
    LET s1 == a[1] + b[1]
        s2 == a[2] + b[2] + (s1 \div LIMB)
        s3 == a[3] + b[3] + (s2 \div LIMB)
        s4 == a[4] + b[4] + (s3 \div LIMB)
    IN [val |-> <<s1 % LIMB, s2 % LIMB, s3 % LIMB, s4 % LIMB>>,
        overflow |-> s4 >= LIMB]

\* u64 subtraction: limb by limb with the borrow.
WordSub(a, b) ==
    LET d1 == a[1] - b[1]
        d2 == a[2] - b[2] - (IF d1 < 0 THEN 1 ELSE 0)
        d3 == a[3] - b[3] - (IF d2 < 0 THEN 1 ELSE 0)
        d4 == a[4] - b[4] - (IF d3 < 0 THEN 1 ELSE 0)
    IN [val |-> <<d1 % LIMB, d2 % LIMB, d3 % LIMB, d4 % LIMB>>,
        overflow |-> d4 < 0]

\* u64 not.
WordNot(a) == MkWord(LAMBDA i : MaxLimb - a[i])

\* The sign bit of the word read as an i64.
SignBit(a) == a[Limbs] >= LIMB \div 2

\* i64 negation: only i64::MIN has no negation.
WordNeg(a) ==
    [val |-> WordAdd(WordNot(a), Word(1)).val,
     overflow |-> a = <<0, 0, 0, LIMB \div 2>>]

\* and, or, xor of two limbs, bit by bit.
RECURSIVE LimbBits(_, _, _, _)
LimbBits(op, x, y, n) ==
    IF n = 0 THEN 0
    ELSE LET bx == x % 2
             by == y % 2
             bit == CASE op = "and" -> IF bx = 1 /\ by = 1 THEN 1 ELSE 0
                      [] op = "or"  -> IF bx = 1 \/ by = 1 THEN 1 ELSE 0
                      [] op = "xor" -> IF bx # by THEN 1 ELSE 0
         IN bit + 2 * LimbBits(op, x \div 2, y \div 2, n - 1)

WordBits(op, a, b) == MkWord(LAMBDA i : LimbBits(op, a[i], b[i], 16))

\* a << k for 0 <= k < 64.
ShiftLeft(a, k) ==
    LET q == k \div 16
        r == k % 16
    IN MkWord(LAMBDA i :
          (LimbAt(a, i - q, 0) % Pow2(16 - r)) * Pow2(r)
          + (LimbAt(a, i - q - 1, 0) \div Pow2(16 - r)))

\* a >> k for 0 <= k < 64; the vacated limbs are `fill` (0, or all ones
\* for the arithmetic shift of a negative i64).
ShiftRight(a, k, fill) ==
    LET q == k \div 16
        r == k % 16
    IN MkWord(LAMBDA i :
          (LimbAt(a, i + q, fill) \div Pow2(r))
          + (LimbAt(a, i + q + 1, fill) % Pow2(r)) * Pow2(16 - r))

\* The shift count of <<, >>: a count of 64 or more overflows; without
\* overflow checks the count is masked to its low six bits.
ShiftOverflows(count) == count[1] >= 64 \/ count[2] # 0 \/ count[3] # 0 \/ count[4] # 0
ShiftMasked(count) == count[1] % 64

WordShl(a, count) ==
    [val |-> ShiftLeft(a, ShiftMasked(count)), overflow |-> ShiftOverflows(count)]

WordShr(a, count) ==
    [val |-> ShiftRight(a, ShiftMasked(count), 0), overflow |-> ShiftOverflows(count)]

WordAShr(a, count) ==
    [val |-> ShiftRight(a, ShiftMasked(count), IF SignBit(a) THEN MaxLimb ELSE 0),
     overflow |-> ShiftOverflows(count)]

\* The eight bytes of a word, least significant first, and back.
ToLeBytes(a) ==
    <<a[1] % 256, a[1] \div 256, a[2] % 256, a[2] \div 256,
      a[3] % 256, a[3] \div 256, a[4] % 256, a[4] \div 256>>

\* u64::from_le_bytes.
FromLeBytes(bytes) ==
    MkWord(LAMBDA i : bytes[2 * i - 1] + 256 * bytes[2 * i])

\* u64 multiplication: the schoolbook product of the bytes.  Column k holds
\* the byte of weight 256^k of the exact product.
RECURSIVE ColumnSum(_, _, _, _)
ColumnSum(A, B, k, i) ==
    IF i > 7 THEN 0
    ELSE (IF k - i \in 0..7 THEN A[i + 1] * B[k - i + 1] ELSE 0)
         + ColumnSum(A, B, k, i + 1)

RECURSIVE MulColumns(_, _, _, _)
MulColumns(A, B, k, carry) ==
    IF k > 15 THEN <<>>
    ELSE LET t == ColumnSum(A, B, k, 0) + carry
         IN <<t % 256>> \o MulColumns(A, B, k + 1, t \div 256)

WordMul(a, b) ==
    LET cols == MulColumns(ToLeBytes(a), ToLeBytes(b), 0, 0)
    IN [val |-> FromLeBytes(SubSeq(cols, 1, 8)),
        overflow |-> \E k \in 9..16 : cols[k] # 0]

\* u64 division with remainder, b # 0: long division, one bit of `a` at a
\* time from the most significant.  acc holds the quotient and the
\* remainder of the bits above bit n; the remainder stays below b.
BitOf(a, n) == (a[(n \div 16) + 1] \div Pow2(n % 16)) % 2

DivBit(a, b, n, acc) ==
    LET r2 == WordAdd(ShiftLeft(acc.rem, 1), Word(BitOf(a, n))).val
        q2 == ShiftLeft(acc.quot, 1)
    IN IF WordLess(r2, b)
       THEN [quot |-> q2, rem |-> r2]
       ELSE [quot |-> WordAdd(q2, Word(1)).val, rem |-> WordSub(r2, b).val]

RECURSIVE DivStep(_, _, _, _)
DivStep(a, b, n, acc) ==
    IF n < 0 \/ ~WordLess(acc.rem, b) THEN acc
    ELSE DivStep(a, b, n - 1, DivBit(a, b, n, acc))

WordDivRem(a, b) ==
    DivStep(a, b, 63, [quot |-> ZeroEntry, rem |-> ZeroEntry])

---------------------------------------------------------------------------
(* engine/stack.rs *)

\* Stack::new: a vector of `capacity` zero entries.
StackNew(capacity) == [i \in 0..(capacity - 1) |-> ZeroEntry]

StackLen(st) == Cardinality(DOMAIN st)

\* StackFrame::new.  locals_size and stack_size are not fields of the
\* struct: they record the sizes the frame was asked for.
StackFrameNew(locals_base, stack_base, size, locals_size, stack_size) ==
    [locals_base |-> locals_base, stack_base |-> stack_base,
     stack_pointer |-> 0, size |-> size,
     locals_size |-> locals_size, stack_size |-> stack_size]

\* A check that turns away the frame that fills the Stack exactly.
InitialFrameFitsStrictly(st, locals_size, stack_size) ==
    locals_size + stack_size < StackLen(st)

\* Stack::initial_frame: the check and the frame it builds.
InitialFrameFits(st, locals_size, stack_size) ==
    locals_size + stack_size <= StackLen(st)

InitialFrameOf(locals_size, stack_size) ==
    StackFrameNew(0, locals_size, locals_size + stack_size,
                  locals_size, stack_size)

\* StackFrame::with_next_frame: the check and the child it builds.
NextFrameFits(st, f, locals_size, stack_size) ==
    f.size + locals_size + stack_size <= StackLen(st)

NextFrameOf(f, locals_size, stack_size) ==
    StackFrameNew(f.size, f.size + locals_size, locals_size + stack_size,
                  locals_size, stack_size)

\* StackFrame::push as a function of the stack and the frame:
\* what it returns, whether it panics, and the stack and frame after it.
PushOverflowCheck(f) == f.stack_pointer > f.size

FramePush(st, f, value) ==
    IF PushOverflowCheck(f)
    THEN [ret |-> FALSE, panic |-> FALSE, stack |-> st, frame |-> f]
    ELSE LET idx == f.stack_base + f.stack_pointer IN
         IF idx \notin DOMAIN st
         THEN [ret |-> FALSE, panic |-> TRUE, stack |-> st, frame |-> f]
         ELSE [ret |-> TRUE, panic |-> FALSE,
               stack |-> [st EXCEPT ![idx] = value],
               frame |-> [f EXCEPT !.stack_pointer = @ + 1]]

\* A pop that reads the entry at the stack pointer it was called with, the
\* slot above the top, where StackFrame::pop reads the one below it.
FramePopAbove(st, f) ==
    IF f.stack_pointer > 0
    THEN LET idx == f.stack_base + f.stack_pointer IN
         IF idx \notin DOMAIN st
         THEN [ret |-> None, panic |-> TRUE, frame |-> f]
         ELSE [ret |-> Some(st[idx]), panic |-> FALSE,
               frame |-> [f EXCEPT !.stack_pointer = @ - 1]]
    ELSE [ret |-> None, panic |-> FALSE, frame |-> f]

\* StackFrame::pop.
FramePop(st, f) ==
    IF f.stack_pointer > 0
    THEN LET sp == f.stack_pointer - 1
             idx == f.stack_base + sp IN
         IF idx \notin DOMAIN st
         THEN [ret |-> None, panic |-> TRUE, frame |-> f]
         ELSE [ret |-> Some(st[idx]), panic |-> FALSE,
               frame |-> [f EXCEPT !.stack_pointer = sp]]
    ELSE [ret |-> None, panic |-> FALSE, frame |-> f]

\* StackFrame::peek.
FramePeek(st, f) ==
    IF f.stack_pointer > 0
    THEN LET idx == f.stack_base + f.stack_pointer IN
         IF idx \notin DOMAIN st
         THEN [ret |-> None, panic |-> TRUE]
         ELSE [ret |-> Some(st[idx]), panic |-> FALSE]
    ELSE [ret |-> None, panic |-> FALSE]

\* The bound get_local and set_local check an index against.
LocalInBounds(f, idx) == idx < f.stack_base + f.size

\* StackFrame::get_local.
FrameGetLocal(st, f, index) ==
    LET idx == f.locals_base + index IN
    IF LocalInBounds(f, idx)
    THEN IF idx \notin DOMAIN st
         THEN [ret |-> None, panic |-> TRUE]
         ELSE [ret |-> Some(st[idx]), panic |-> FALSE]
    ELSE [ret |-> None, panic |-> FALSE]

\* StackFrame::set_local.
FrameSetLocal(st, f, index, value) ==
    LET idx == f.locals_base + index IN
    IF LocalInBounds(f, idx)
    THEN IF idx \notin DOMAIN st
         THEN [ret |-> None, panic |-> TRUE, stack |-> st]
         ELSE [ret |-> Some(st[idx]), panic |-> FALSE,
               stack |-> [st EXCEPT ![idx] = value]]
    ELSE [ret |-> None, panic |-> FALSE, stack |-> st]

---------------------------------------------------------------------------
(* engine/opcodes.rs: the Opcode enum.  The variants from Nop to Not have  *)
(* no explicit discriminant and count up from 0 in declaration order.      *)

OpcodeNames ==
    <<"Nop", "IConst0", "IConst1", "IConst2", "IConst3",
      "F4Const0", "F4Const1", "F8Const0", "F8Const1",
      "IConst", "IConstW", "Const",
      "LdArg0", "LdArg1", "LdArg2", "LdArg3", "LdArg",
      "StArg0", "StArg1", "StArg2", "StArg3", "StArg",
      "Pop", "Dup", "Swap", "Ret", "RetVal",
      "IAdd", "F4Add", "F8Add", "ISub", "F4Sub", "F8Sub",
      "IMul", "F4Mul", "F8Mul", "IDiv", "F4Div", "F8Div",
      "IRem", "F4Rem", "F8Rem", "INeg", "F4Neg", "F8Neg",
      "Shl", "Shr", "AShr", "And", "Or", "Xor", "Not">>

Directive == 254
Unimplemented == 255

\* `opcode as u8`.
OpcodeAsU8(name) ==
    CASE name = "Directive" -> Directive
      [] name = "Unimplemented" -> Unimplemented
      [] OTHER -> (CHOOSE i \in 1..Len(OpcodeNames) : OpcodeNames[i] = name) - 1

\* The opcode bytes the catalog assigns an instruction to.
AssignedOpcodes == 0..(Len(OpcodeNames) - 1)

Byte == 0..255

---------------------------------------------------------------------------
(* engine/opcode_handler.rs *)

\* Stack::ENTRY_SIZE = size_of::<u64>().
ENTRY_SIZE == 8

\* InstructionResult and ExecutionError, and a panic of the process.
Next == [kind |-> "Next", info |-> "", target |-> 0]
Jump(target) == [kind |-> "Jump", info |-> "", target |-> target]
Return(has_value) ==
    [kind |-> "Return", info |-> IF has_value THEN "true" ELSE "false", target |-> 0]
Err(e) == [kind |-> "Err", info |-> e, target |-> 0]
Panic(msg) == [kind |-> "Panic", info |-> msg, target |-> 0]

\* What a handler leaves behind: its result, the Stack and the frame.
Out(res, st, f) == [res |-> res, stack |-> st, frame |-> f]

\* A HandlerInfo: the opcode the entry is for, the number of parameter
\* bytes, and the handler with what the handlers! macro binds into it.
Handler(opcode, param_count, fn) ==
    [opcode |-> opcode, param_count |-> param_count, fn |-> fn,
     value |-> ZeroEntry, index |-> 0, type |-> "", op |-> ""]

PushNumeric(opcode, value) ==
    [Handler(opcode, 0, "push_numeric") EXCEPT !.value = value]
LoadLocal(opcode, index) ==
    [Handler(opcode, 0, "load_local") EXCEPT !.index = index]
StoreLocal(opcode, index) ==
    [Handler(opcode, 0, "store_local") EXCEPT !.index = index]
BinOp(opcode, type, op) ==
    [Handler(opcode, 0, "binop") EXCEPT !.type = type, !.op = op]
UnaryOp(opcode, type, op) ==
    [Handler(opcode, 0, "unaryop") EXCEPT !.type = type, !.op = op]

\* (1.0_f32).to_bits() = 0x3F80_0000 and (1.0_f64).to_bits() =
\* 0x3FF0_0000_0000_0000, as words.
F32One == <<0, 16256, 0, 0>>
F64One == <<0, 0, 0, 16368>>

UnimplementedEntry == Handler("Unimplemented", 0, "unimplemented_handler")

\* The entries of HANDLERS that name an instruction (lines 334 to 385).
AssignedHandlers ==
    <<Handler("Nop", 0, "nop"),
      PushNumeric("IConst0", Word(0)),
      PushNumeric("IConst1", Word(1)),
      PushNumeric("IConst2", Word(2)),
      PushNumeric("IConst3", Word(3)),
      PushNumeric("F4Const0", ZeroEntry),
      PushNumeric("F4Const1", F32One),
      PushNumeric("F8Const0", ZeroEntry),
      PushNumeric("F8Const1", F64One),
      Handler("IConst", 1, "push_bytes"),
      Handler("IConstW", 2, "push_bytes"),
      Handler("Const", 4, "push_constant"),
      LoadLocal("LdArg0", 0),
      LoadLocal("LdArg1", 1),
      LoadLocal("LdArg2", 2),
      LoadLocal("LdArg3", 3),
      Handler("LdArg", 1, "load_local_param"),
      StoreLocal("StArg0", 0),
      StoreLocal("StArg1", 1),
      StoreLocal("StArg2", 2),
      StoreLocal("StArg3", 3),
      Handler("StArg", 1, "store_local_param"),
      Handler("Pop", 0, "pop"),
      Handler("Dup", 0, "dup"),
      Handler("Swap", 0, "swap"),
      Handler("Ret", 0, "ret"),
      Handler("RetVal", 0, "ret_val"),
      BinOp("IAdd", "u64", "add"),
      BinOp("F4Add", "f32", "add"),
      BinOp("F8Add", "f64", "add"),
      BinOp("ISub", "u64", "sub"),
      BinOp("F4Sub", "f32", "sub"),
      BinOp("F8Sub", "f64", "sub"),
      BinOp("IMul", "u64", "mul"),
      BinOp("F4Mul", "f32", "mul"),
      BinOp("F8Mul", "f64", "mul"),
      BinOp("IDiv", "u64", "div"),
      BinOp("F4Div", "f32", "div"),
      BinOp("F8Div", "f64", "div"),
      BinOp("IRem", "u64", "rem"),
      BinOp("F4Rem", "f32", "rem"),
      BinOp("F8Rem", "f64", "rem"),
      UnaryOp("INeg", "i64", "neg"),
      UnaryOp("F4Neg", "f32", "neg"),
      UnaryOp("F8Neg", "f64", "neg"),
      BinOp("Shl", "u64", "shl"),
      BinOp("Shr", "u64", "shr"),
      BinOp("AShr", "i64", "shr"),
      BinOp("And", "u64", "bitand"),
      BinOp("Or", "u64", "bitor"),
      BinOp("Xor", "u64", "bitxor"),
      UnaryOp("Not", "u64", "not")>>

\* HANDLERS: the 52 entries above, 202 entries for Opcode::Unimplemented
\* (lines 386 to 587), the entry of Opcode::Directive (line 588) and a last
\* Unimplemented entry (line 589): 256 entries, HANDLERS[0] first.
HANDLERS ==
    AssignedHandlers
    \o [i \in 1..202 |-> UnimplementedEntry]
    \o <<Handler("Directive", 0, "unimplemented_handler"), UnimplementedEntry>>

\* HANDLERS.get(opcode as usize).
HandlerGet(opcode) == HANDLERS[opcode + 1]

\* A Constant of the ConstantTable: its variant and its bits.  A 32-bit
\* value is held as its two limbs.  A String is held as the address
\* `string.as_ptr()` yields.
Constant(type, bits) == [type |-> type, bits |-> bits]

\* `x.into()` from u32 to u64.
U32IntoU64(x) == <<x[1], x[2], 0, 0>>

\* `entry as u32`: the low 32 bits.
EntryAsU32(a) == <<a[1], a[2]>>

\* ConstantTable::get_entry, for the index given as the four bytes of the
\* u32, least significant first: Vec::get of `index as usize`.
get_entry(constants, bytes) ==
    LET lo == bytes[1] + 256 * bytes[2]
        hi == bytes[3] + 256 * bytes[4]
    IN IF hi = 0 /\ lo < Len(constants) THEN <<constants[lo + 1]>> ELSE <<>>

\* A conversion that puts a 32-bit constant in the high half of the entry.
ConstantEntryHighHalf(c) ==
    IF c.type \in {"Unsigned32", "Float32"}
    THEN <<0, 0, c.bits[1], c.bits[2]>>
    ELSE c.bits

\* What ConstantTable::push_entry hands to StackFrame::push for a constant.
ConstantEntry(c) ==
    CASE c.type = "Unsigned32" -> U32IntoU64(c.bits)
      [] c.type = "Unsigned64" -> c.bits
      [] c.type = "Float32" -> U32IntoU64(c.bits)
      [] c.type = "Float64" -> c.bits
      [] c.type = "String" -> c.bits

\* HandlerInputInfo::stack_push, then `.map(|_| InstructionResult::Next)`.
push_numeric(st, f, value) ==
    LET r == FramePush(st, f, value) IN
    IF r.panic THEN Out(Panic("index out of bounds"), st, f)
    ELSE IF r.ret THEN Out(Next, r.stack, r.frame)
    ELSE Out(Err("StackOverflow"), st, f)

\* push_bytes.  `bytes[0..params.len()]` of the 8-byte array panics when
\* params is longer than the array.
push_bytes(params, st, f) ==
    IF Len(params) <= ENTRY_SIZE THEN Out(Err("IllegalParam"), st, f)
    ELSE IF Len(params) > ENTRY_SIZE
         THEN Out(Panic("range end index out of range"), st, f)
         ELSE push_numeric(st, f,
                  FromLeBytes(params \o [i \in 1..(ENTRY_SIZE - Len(params)) |-> 0]))

\* HandlerInputInfo::pull_params: the first `count` bytes, if there are
\* that many.
pull_params(params, count) ==
    IF count <= Len(params) THEN <<SubSeq(params, 1, count)>> ELSE <<>>

\* push_constant, with ConstantTable::push_entry.
push_constant(params, st, f, constants) ==
    LET bytes == pull_params(params, 4) IN
    IF bytes = <<>> THEN Out(Err("MissingParams"), st, f)
    ELSE LET entry == get_entry(constants, bytes[1]) IN
         IF entry = <<>> THEN Out(Err("IndexOutOfBounds"), st, f)
         ELSE push_numeric(st, f, ConstantEntry(entry[1]))

\* pop: the handler of Opcode::Pop.
pop_handler(st, f) ==
    LET r == FramePop(st, f) IN
    IF r.panic THEN Out(Panic("index out of bounds"), st, f)
    ELSE IF r.ret.some THEN Out(Next, st, r.frame)
    ELSE Out(Err("EmptyStack"), st, f)

dup(st, f) ==
    LET r == FramePeek(st, f) IN
    IF r.panic THEN Out(Panic("index out of bounds"), st, f)
    ELSE IF r.ret.some THEN push_numeric(st, f, r.ret.val)
    ELSE Out(Err("EmptyStack"), st, f)

swap(st, f) ==
    LET r1 == FramePop(st, f) IN
    IF r1.panic THEN Out(Panic("index out of bounds"), st, f)
    ELSE IF ~r1.ret.some THEN Out(Err("EmptyStack"), st, f)
    ELSE LET r2 == FramePop(st, r1.frame) IN
    IF r2.panic THEN Out(Panic("index out of bounds"), st, r1.frame)
    ELSE IF ~r2.ret.some THEN Out(Err("EmptyStack"), st, r1.frame)
    ELSE LET p1 == push_numeric(st, r2.frame, r1.ret.val) IN
    IF p1.res # Next THEN p1
    ELSE push_numeric(p1.stack, p1.frame, r2.ret.val)

load_local(st, f, index) ==
    LET r == FrameGetLocal(st, f, index) IN
    IF r.panic THEN Out(Panic("index out of bounds"), st, f)
    ELSE IF r.ret.some THEN push_numeric(st, f, r.ret.val)
    ELSE Out(Err("IndexOutOfBounds"), st, f)

store_local(st, f, index) ==
    LET r == FramePop(st, f) IN
    IF r.panic THEN Out(Panic("index out of bounds"), st, f)
    ELSE IF ~r.ret.some THEN Out(Err("EmptyStack"), st, f)
    ELSE LET w == FrameSetLocal(st, r.frame, index, r.ret.val) IN
    IF w.panic THEN Out(Panic("index out of bounds"), st, r.frame)
    ELSE IF w.ret.some THEN Out(Next, w.stack, r.frame)
    ELSE Out(Err("IndexOutOfBounds"), st, r.frame)

\* The outcome of an operator of std::ops: a value, or a panic.
Value(v) == [panic |-> FALSE, val |-> v]
Panics == [panic |-> TRUE, val |-> ZeroEntry]

\* An operator whose overflow panics when the build checks overflow and
\* wraps (a shift: masks its count) when it does not.
Checked(r, checks) == IF r.overflow /\ checks THEN Panics ELSE Value(r.val)

\* IEEE-754 arithmetic is not modelled: a floating-point operator yields
\* some bit pattern of its type, here one of 0.0 and 1.0.
F32Results == {Value(ZeroEntry), Value(F32One)}
F64Results == {Value(ZeroEntry), Value(F64One)}

\* The binary operators of the table, applied as op(value1, value2): the
\* set of outcomes.  Integer division and remainder by zero panic in every
\* build.
BinaryOp(type, op, value1, value2, checks) ==
    CASE type = "f32" -> F32Results
      [] type = "f64" -> F64Results
      [] op = "add" -> {Checked(WordAdd(value1, value2), checks)}
      [] op = "sub" -> {Checked(WordSub(value1, value2), checks)}
      [] op = "mul" -> {Checked(WordMul(value1, value2), checks)}
      [] op = "div" -> {IF IsZeroWord(value2) THEN Panics
                        ELSE Value(WordDivRem(value1, value2).quot)}
      [] op = "rem" -> {IF IsZeroWord(value2) THEN Panics
                        ELSE Value(WordDivRem(value1, value2).rem)}
      [] op = "shl" -> {Checked(WordShl(value1, value2), checks)}
      [] op = "shr" /\ type = "u64" -> {Checked(WordShr(value1, value2), checks)}
      [] op = "shr" /\ type = "i64" -> {Checked(WordAShr(value1, value2), checks)}
      [] op = "bitand" -> {Value(WordBits("and", value1, value2))}
      [] op = "bitor" -> {Value(WordBits("or", value1, value2))}
      [] op = "bitxor" -> {Value(WordBits("xor", value1, value2))}

\* The unary operators of the table.  Negating a float flips its sign bit;
\* an f32 is the low 32 bits of the entry, widened again with zeros.
UnaryOperator(type, op, value, checks) ==
    CASE type = "i64" /\ op = "neg" -> Checked(WordNeg(value), checks)
      [] type = "u64" /\ op = "not" -> Value(WordNot(value))
      [] type = "f32" /\ op = "neg" ->
            Value(U32IntoU64(<<value[1], (value[2] + LIMB \div 2) % LIMB>>))
      [] type = "f64" /\ op = "neg" ->
            Value(<<value[1], value[2], value[3], (value[4] + LIMB \div 2) % LIMB>>)

\* unaryop: pop, apply, push.
unaryop(st, f, type, op, checks) ==
    LET r == FramePop(st, f) IN
    IF r.panic THEN {Out(Panic("index out of bounds"), st, f)}
    ELSE IF ~r.ret.some THEN {Out(Err("EmptyStack"), st, f)}
    ELSE LET v == UnaryOperator(type, op, r.ret.val, checks) IN
         IF v.panic THEN {Out(Panic("arithmetic overflow"), st, r.frame)}
         ELSE {push_numeric(st, r.frame, v.val)}

\* binop: stack_pop_many pops value1 (the top) and then value2, and the
\* operator is applied as op(value1, value2).
binop(st, f, type, op, checks) ==
    LET r1 == FramePop(st, f) IN
    IF r1.panic THEN {Out(Panic("index out of bounds"), st, f)}
    ELSE IF ~r1.ret.some THEN {Out(Err("EmptyStack"), st, f)}
    ELSE LET r2 == FramePop(st, r1.frame) IN
    IF r2.panic THEN {Out(Panic("index out of bounds"), st, r1.frame)}
    ELSE IF ~r2.ret.some THEN {Out(Err("EmptyStack"), st, r1.frame)}
    ELSE {IF v.panic THEN Out(Panic("arithmetic"), st, r2.frame)
          ELSE push_numeric(st, r2.frame, v.val) :
             v \in BinaryOp(type, op, r1.ret.val, r2.ret.val, checks)}

unimplemented_handler(st, f) == Out(Panic("Opcode not implemented"), st, f)

\* `(handler_info.handler)(&mut HandlerInputInfo { opcode, params, frame,
\* constants })`: the set of outcomes of the handler of a table entry.
CallHandler(h, params, st, f, constants, checks) ==
    CASE h.fn = "nop" -> {Out(Next, st, f)}
      [] h.fn = "push_numeric" -> {push_numeric(st, f, h.value)}
      [] h.fn = "push_bytes" -> {push_bytes(params, st, f)}
      [] h.fn = "push_constant" -> {push_constant(params, st, f, constants)}
      [] h.fn = "load_local" -> {load_local(st, f, h.index)}
      [] h.fn = "load_local_param" ->
            LET x == pull_params(params, 1) IN
            IF x = <<>> THEN {Out(Err("MissingParams"), st, f)}
            ELSE {load_local(st, f, x[1][1])}
      [] h.fn = "store_local" -> {store_local(st, f, h.index)}
      [] h.fn = "store_local_param" ->
            LET x == pull_params(params, 1) IN
            IF x = <<>> THEN {Out(Err("MissingParams"), st, f)}
            ELSE {store_local(st, f, x[1][1])}
      [] h.fn = "pop" -> {pop_handler(st, f)}
      [] h.fn = "dup" -> {dup(st, f)}
      [] h.fn = "swap" -> {swap(st, f)}
      [] h.fn = "ret" -> {Out(Return(FALSE), st, f)}
      [] h.fn = "ret_val" -> {Out(Return(TRUE), st, f)}
      [] h.fn = "binop" -> binop(st, f, h.type, h.op, checks)
      [] h.fn = "unaryop" -> unaryop(st, f, h.type, h.op, checks)
      [] h.fn = "unimplemented_handler" -> {unimplemented_handler(st, f)}

\* A dispatch that hands the handler whatever operand bytes there are,
\* without counting them first.
exec_instruction_uncounted(code, st, f, constants, checks) ==
    IF code = <<>> THEN {Out(Err("OpcodeNotFound"), st, f)}
    ELSE LET opcode == Head(code)
             operands == Tail(code)
         IN IF opcode + 1 \notin DOMAIN HANDLERS
            THEN {Out(Err("IllegalOpcode"), st, f)}
            ELSE LET handler_info == HandlerGet(opcode) IN
                 IF opcode # OpcodeAsU8(handler_info.opcode)
                 THEN {Out(Panic("HANDLERS Array invalid: misaligned opcode"), st, f)}
                 ELSE CallHandler(handler_info, operands, st, f, constants, checks)

\* exec_instruction: the set of outcomes of executing the instruction at
\* the head of `code`.
exec_instruction(code, st, f, constants, checks) ==
    IF code = <<>> THEN {Out(Err("OpcodeNotFound"), st, f)}
    ELSE LET opcode == Head(code)
             operands == Tail(code)
         IN IF opcode + 1 \notin DOMAIN HANDLERS
            THEN {Out(Err("IllegalOpcode"), st, f)}
            ELSE LET handler_info == HandlerGet(opcode) IN
                 IF Len(operands) < handler_info.param_count
                 THEN {Out(Err("MissingParams"), st, f)}
                 ELSE IF opcode # OpcodeAsU8(handler_info.opcode)
                 THEN {Out(Panic("HANDLERS Array invalid: misaligned opcode"), st, f)}
                 ELSE CallHandler(handler_info, operands, st, f, constants, checks)

---------------------------------------------------------------------------
(* The frame operations as actions on the active frame. *)

Depth == Len(frames)
Active == frames[Depth]
SetActive(f) == [frames EXCEPT ![Depth] = f]

FrameArgs == 0..MaxFrameArg

initial_frame(locals_size, stack_size) ==
    /\ ~panicked
    /\ UNCHANGED otherThanFrames
    /\ Depth = 0
    /\ IF InitialFrameFits(stack, locals_size, stack_size)
       THEN /\ frames' = <<InitialFrameOf(locals_size, stack_size)>>
            /\ last' = Call("initial_frame", Bool(TRUE))
       ELSE /\ frames' = frames
            /\ last' = Call("initial_frame", Bool(FALSE))
    /\ UNCHANGED <<stack, panicked>>

with_next_frame(locals_size, stack_size) ==
    /\ ~panicked
    /\ UNCHANGED otherThanFrames
    /\ Depth > 0
    /\ Depth < MaxDepth
    /\ IF NextFrameFits(stack, Active, locals_size, stack_size)
       THEN /\ frames' = Append(frames, NextFrameOf(Active, locals_size, stack_size))
            /\ last' = Call("action", Bool(TRUE))
       ELSE /\ frames' = frames
            /\ last' = Call("with_next_frame", Bool(FALSE))
    /\ UNCHANGED <<stack, panicked>>

\* The action given to with_next_frame returns: the child is gone and
\* with_next_frame returns true.
action_returns ==
    /\ ~panicked
    /\ UNCHANGED otherThanFrames
    /\ Depth > 1
    /\ frames' = SubSeq(frames, 1, Depth - 1)
    /\ last' = Call("with_next_frame", Bool(TRUE))
    /\ UNCHANGED <<stack, panicked>>

\* The initial frame is dropped; the Stack keeps its entries.
drop_frame ==
    /\ ~panicked
    /\ UNCHANGED otherThanFrames
    /\ Depth = 1
    /\ frames' = <<>>
    /\ last' = Call("drop", Bool(TRUE))
    /\ UNCHANGED <<stack, panicked>>

push(value) ==
    /\ ~panicked
    /\ UNCHANGED otherThanFrames
    /\ Depth > 0
    /\ LET r == FramePush(stack, Active, value) IN
       /\ stack' = r.stack
       /\ frames' = SetActive(r.frame)
       /\ panicked' = r.panic
       /\ last' = Call("push", Bool(r.ret))

pop ==
    /\ ~panicked
    /\ UNCHANGED otherThanFrames
    /\ Depth > 0
    /\ LET r == FramePop(stack, Active) IN
       /\ frames' = SetActive(r.frame)
       /\ panicked' = r.panic
       /\ last' = Call("pop", r.ret)
    /\ UNCHANGED stack

peek ==
    /\ ~panicked
    /\ UNCHANGED otherThanFrames
    /\ Depth > 0
    /\ LET r == FramePeek(stack, Active) IN
       /\ panicked' = r.panic
       /\ last' = Call("peek", r.ret)
    /\ UNCHANGED <<stack, frames>>

get_local(index) ==
    /\ ~panicked
    /\ UNCHANGED otherThanFrames
    /\ Depth > 0
    /\ LET r == FrameGetLocal(stack, Active, index) IN
       /\ panicked' = r.panic
       /\ last' = Call("get_local", r.ret)
    /\ UNCHANGED <<stack, frames>>

set_local(index, value) ==
    /\ ~panicked
    /\ UNCHANGED otherThanFrames
    /\ Depth > 0
    /\ LET r == FrameSetLocal(stack, Active, index, value) IN
       /\ stack' = r.stack
       /\ panicked' = r.panic
       /\ last' = Call("set_local", r.ret)
    /\ UNCHANGED frames

\* No instruction has been executed, in a build that wraps on overflow.
NoResult == [kind |-> "none", info |-> "", target |-> 0]
NoExec ==
    /\ overflow_checks = FALSE
    /\ bytecode = <<>>
    /\ result = NoResult

\* No Runner has been built.
NoLoader == [runnables |-> <<>>]
NoRunner ==
    /\ loader = NoLoader
    /\ pc = 0
    /\ run = [at |-> "none", ret |-> ""]

\* No history of pushes is kept.
NoHistory == pushed = <<>>

\* No image has been given to the parser and no Runnable is being made.
\* No arena and no heap: the state of a run that uses neither.
NoArena == [state |-> "none"]
NoHeap == [state |-> "none"]
NoMemory == arena = NoArena /\ heap = NoHeap

NoImage == <<>>
NotParsed == [state |-> "none"]
NoParse ==
    /\ image = NoImage
    /\ layout = NotParsed
    /\ made = NotParsed

\* No allocator has been built.
NoAllocator ==
    /\ freelists = <<>>
    /\ headers = <<>>
    /\ live = {}

InitFrame ==
    /\ stack = StackNew(StackCap)
    /\ frames = <<>>
    /\ last = NoCall
    /\ panicked = FALSE
    /\ NoExec
    /\ NoRunner
    /\ NoAllocator
    /\ NoHistory
    /\ NoParse
    /\ NoMemory

NextFrame ==
    \/ \E l \in FrameArgs, s \in FrameArgs : initial_frame(l, s)
    \/ \E l \in FrameArgs, s \in FrameArgs : with_next_frame(l, s)
    \/ action_returns
    \/ drop_frame
    \/ \E v \in FrameValues : push(v)
    \/ pop
    \/ peek
    \/ \E i \in 0..StackCap : get_local(i)
    \/ \E i \in 0..StackCap, v \in FrameValues : set_local(i, v)

SpecFrame == InitFrame /\ [][NextFrame]_vars

---------------------------------------------------------------------------
(* One frame, made by Stack::initial_frame, that is only pushed to and     *)
(* popped from, with the history of the values pushed and not yet popped   *)
(* kept beside it.                                                         *)

\* StackFrame::push(value), recorded in the history when it returns true.
push_recorded(value) ==
    /\ ~panicked
    /\ Depth > 0
    /\ LET r == FramePush(stack, Active, value) IN
       /\ stack' = r.stack
       /\ frames' = SetActive(r.frame)
       /\ panicked' = r.panic
       /\ last' = Call("push", Bool(r.ret))
       /\ pushed' = IF r.ret THEN Append(pushed, value) ELSE pushed
    /\ UNCHANGED <<execVars, runVars, buddyVars, parseVars,
                   memVars>>

\* StackFrame::pop, taking the newest value out of the history.
pop_recorded ==
    /\ ~panicked
    /\ Depth > 0
    /\ LET r == FramePop(stack, Active) IN
       /\ frames' = SetActive(r.frame)
       /\ panicked' = r.panic
       /\ last' = Call("pop", r.ret)
       /\ pushed' = IF pushed = <<>> THEN pushed
                    ELSE SubSeq(pushed, 1, Len(pushed) - 1)
    /\ UNCHANGED <<stack, execVars, runVars, buddyVars, parseVars,
                   memVars>>

\* A Stack fresh from Stack::new, no frame on it yet.
InitLifo ==
    /\ stack = StackNew(LifoStackCap)
    /\ frames = <<>>
    /\ last = NoCall
    /\ panicked = FALSE
    /\ NoExec
    /\ NoRunner
    /\ NoAllocator
    /\ NoHistory
    /\ NoParse
    /\ NoMemory

NextLifo ==
    \/ \E l \in FrameArgs, s \in FrameArgs : initial_frame(l, s)
    \/ \E v \in FrameValues : push_recorded(v)
    \/ pop_recorded

SpecLifo == InitLifo /\ [][NextLifo]_vars

---------------------------------------------------------------------------
(* One instruction executed on a frame: exec_instruction as an action. *)

MaxWord == <<MaxLimb, MaxLimb, MaxLimb, MaxLimb>>
MinI64 == <<0, 0, 0, LIMB \div 2>>

\* The entries the operand stack holds before the instruction.
ExecValues == {Word(0), Word(3), Word(65), MaxWord, MinI64}

\* The (locals_size, stack_size) the frame was created with.
ExecFrames == {<<1, 2>>, <<2, 2>>, <<0, 0>>}

\* The constant table of the image: one constant of each variant.
ModelConstants ==
    <<Constant("Unsigned32", <<7, 1>>),
      Constant("Unsigned64", <<1, 2, 3, 4>>),
      Constant("Float32", EntryAsU32(F32One)),
      Constant("Float64", F64One),
      Constant("String", <<4096, 0, 0, 0>>)>>

\* The bytes that follow the opcode byte in the slice.
Operands ==
    {<<>>, <<0>>, <<1, 1>>,
     <<0, 0, 0, 0>>, <<1, 0, 0, 0>>, <<2, 0, 0, 0>>, <<3, 0, 0, 0>>,
     <<0, 0, 1, 0>>, <<4, 0, 0, 0, 9, 9, 9, 9, 9>>}

\* A frame on which `values` have been pushed, one after the other.
RECURSIVE Preload(_, _, _)
Preload(st, f, values) ==
    IF values = <<>> THEN [ok |-> TRUE, stack |-> st, frame |-> f]
    ELSE LET r == FramePush(st, f, Head(values)) IN
         IF r.ret THEN Preload(r.stack, r.frame, Tail(values))
         ELSE [ok |-> FALSE, stack |-> st, frame |-> f]

PreloadValues == UNION {[1..n -> ExecValues] : n \in 0..MaxPreload}

InitExec ==
    /\ \E shape \in ExecFrames, values \in PreloadValues :
          LET st == StackNew(ExecStackCap)
              p == Preload(st, InitialFrameOf(shape[1], shape[2]), values)
          IN /\ InitialFrameFits(st, shape[1], shape[2])
             /\ p.ok
             /\ stack = p.stack
             /\ frames = <<p.frame>>
    /\ last = NoCall
    /\ panicked = FALSE
    /\ overflow_checks \in BOOLEAN
    /\ bytecode = <<>>
    /\ result = NoResult
    /\ NoRunner
    /\ NoAllocator
    /\ NoHistory
    /\ NoParse
    /\ NoMemory

\* exec_instruction(code, frame, constants), once.
ExecInstruction(code) ==
    /\ ~panicked
    /\ result = NoResult
    /\ \E out \in exec_instruction(code, stack, Active, ModelConstants, overflow_checks) :
          /\ bytecode' = code
          /\ result' = out.res
          /\ stack' = out.stack
          /\ frames' = SetActive(out.frame)
          /\ panicked' = (out.res.kind = "Panic")
    /\ UNCHANGED <<last, overflow_checks, runVars, buddyVars, pushed, parseVars,
                   memVars>>

\* Every opcode byte is tried at the end of the code and before two more
\* bytes; the opcodes that take parameters are tried before every operand
\* string.
OperandsOf(opcode) ==
    IF HandlerGet(opcode).param_count > 0 THEN Operands ELSE {<<>>, <<1, 1>>}

NextExec ==
    \/ ExecInstruction(<<>>)
    \/ \E opcode \in Byte : \E operands \in OperandsOf(opcode) :
          ExecInstruction(<<opcode>> \o operands)

SpecExec == InitExec /\ [][NextExec]_vars

---------------------------------------------------------------------------
(* engine/mod.rs: Runner::run, one iteration of its loop at a time. *)

\* A Runnable, and Directive::Start.
Runnable(maxstack, maxlocals, directives, code) ==
    [maxstack |-> maxstack, maxlocals |-> maxlocals,
     directives |-> directives, bytecode |-> code]

\* Loader::get_entry_point: the first Runnable with a Start directive.
get_entry_point(l) ==
    LET starts == {i \in 1..Len(l.runnables) :
                      \E d \in 1..Len(l.runnables[i].directives) :
                          l.runnables[i].directives[d] = "Start"}
    IN IF starts = {} THEN <<>>
       ELSE <<l.runnables[CHOOSE i \in starts : \A j \in starts : i <= j]>>

\* Runnable::setup_info.
setup_info(r) == <<r.maxstack, r.maxlocals>>

\* Runnable::code: the bytecode of the Runnable.
code(r) == r.bytecode

\* Where Runner::run is, and the Result it returned.
At(where) == [at |-> where, ret |-> ""]
Returned(ret) == [at |-> "returned", ret |-> ret]
ExecutionError(e) == "ExecutionError(" \o e \o ")"

\* The entry point the loop is running.
EntryPoint == get_entry_point(loader)[1]

\* `&code[pc..]`.
CodeFrom(c, at) == SubSeq(c, at + 1, Len(c))

\* Runner::run up to its loop.
run_start ==
    /\ ~panicked
    /\ run = At("ready")
    /\ LET entry == get_entry_point(loader) IN
       IF entry = <<>>
       THEN /\ run' = Returned("MissingEntryPoint")
            /\ UNCHANGED <<frames, pc>>
       ELSE LET info == setup_info(entry[1])
                maxstack == info[1]
                maxlocals == info[2]
            IN IF InitialFrameFits(stack, maxlocals, maxstack)
               THEN /\ frames' = <<InitialFrameOf(maxlocals, maxstack)>>
                    /\ pc' = 0
                    /\ run' = At("loop")
               ELSE /\ run' = Returned("StackOverflow")
                    /\ UNCHANGED <<frames, pc>>
    /\ UNCHANGED <<stack, last, panicked, execVars, loader, buddyVars, pushed, parseVars,
                   memVars>>

\* A check on Next that lets the program counter reach the end of the code.
NextPcUpToEnd(at, c) == at + 1 <= Len(c)

\* Runner::run, on Next: the instruction after the one at `at` is in the code.
NextPcInCode(at, c) == at + 1 < Len(c)

\* Runner::run, on Jump(target): the target is in the code.
JumpTargetInCode(target, c) == target < Len(c)

\* One iteration of the loop of Runner::run.
run_loop ==
    /\ ~panicked
    /\ run = At("loop")
    /\ LET c == code(EntryPoint) IN
       \E out \in exec_instruction(CodeFrom(c, pc), stack, Active,
                                   ModelConstants, overflow_checks) :
          /\ bytecode' = CodeFrom(c, pc)
          /\ result' = out.res
          /\ stack' = out.stack
          /\ frames' = SetActive(out.frame)
          /\ panicked' = (out.res.kind = "Panic")
          /\ CASE out.res.kind = "Panic" -> UNCHANGED <<pc, run>>
               [] out.res.kind = "Err" ->
                     /\ run' = Returned(ExecutionError(out.res.info))
                     /\ pc' = pc
               [] out.res.kind = "Next" ->
                     IF NextPcInCode(pc, c)
                     THEN pc' = pc + 1 /\ run' = run
                     ELSE pc' = pc /\ run' = Returned("ProgramCounterOverflow")
               [] out.res.kind = "Jump" ->
                     IF JumpTargetInCode(out.res.target, c)
                     THEN pc' = out.res.target /\ run' = run
                     ELSE pc' = pc /\ run' = Returned("ProgramCounterOverflow")
               [] out.res.kind = "Return" ->
                     /\ run' = Returned("Ok")
                     /\ pc' = pc
    /\ UNCHANGED <<last, overflow_checks, loader, buddyVars, pushed, parseVars,
                   memVars>>

\* The bytes the programs are written with: i.const.0, i.const.3, i.const,
\* ld.arg, ret, i.sub, i.div, an unassigned byte and the directive byte.
CodeBytes == {1, 4, 9, 16, 25, 30, 36, 52, 254}

Codes == UNION {[1..n -> CodeBytes] : n \in 0..MaxCodeLen}

\* The images: no Runnable, a Runnable without Start, an entry point.
Loaders ==
    {[runnables |-> <<>>]}
    \cup {[runnables |-> <<Runnable(ms, 1, d, c)>>] :
             ms \in {2, RunStackCap}, d \in {<<>>, <<"Start">>}, c \in Codes}

InitRunner ==
    /\ stack = StackNew(RunStackCap)
    /\ frames = <<>>
    /\ last = NoCall
    /\ panicked = FALSE
    /\ overflow_checks \in BOOLEAN
    /\ bytecode = <<>>
    /\ result = NoResult
    /\ loader \in Loaders
    /\ pc = 0
    /\ run = At("ready")
    /\ NoAllocator
    /\ NoHistory
    /\ NoParse
    /\ NoMemory

NextRunner ==
    \/ run_start
    \/ run_loop

SpecRunner == InitRunner /\ [][NextRunner]_vars

---------------------------------------------------------------------------
(* memory/allocators/general.rs: GeneralAllocator<DEPTH>, a buddy          *)
(* allocator.  A pointer into the region is held as its byte offset from   *)
(* `base`; None is <<>> and Some(p) is <<p>>.                              *)

MIN_PAGE_ALIGNMENT == 4096

\* size_of::<BlockHeader>(): one Option<NonNull<BlockHeader>>.
BlockHeaderSize == 8

capacity == Pow2(CapacityLog2)

\* `capacity >> (DEPTH - 1)`.
min_block_size == capacity \div Pow2(DEPTH - 1)

\* usize::ilog2, for n > 0.
RECURSIVE ilog2(_)
ilog2(n) == IF n <= 1 THEN 0 ELSE 1 + ilog2(n \div 2)

is_power_of_two(n) == n > 0 /\ n = Pow2(ilog2(n))

RECURSIVE PowerOfTwoFrom(_, _)
PowerOfTwoFrom(n, p) == IF p >= n THEN p ELSE PowerOfTwoFrom(n, 2 * p)
next_power_of_two(n) == PowerOfTwoFrom(n, 1)

NoBlock == <<>>
Block(p) == <<p>>

Orders == 0..(DEPTH - 1)

\* Where a block can start: the multiples of min_block_size in the region.
BlockOffsets == {k * min_block_size : k \in 0..(Pow2(DEPTH - 1) - 1)}

\* The memory of a block whose BlockHeader the allocator has not written:
\* never written, or handed to the client since.
Unwritten == "unwritten"

\* The guards of GeneralAllocator::new on the capacity, for a base aligned
\* to MIN_PAGE_ALIGNMENT.
NewConstraintsHold ==
    /\ capacity >= min_block_size
    /\ min_block_size >= BlockHeaderSize
    /\ is_power_of_two(capacity)

\* GeneralAllocator::new: the whole region is one free block of the top
\* order.
GeneralAllocatorNew ==
    [freelists |-> [o \in Orders |-> IF o = DEPTH - 1 THEN Block(0) ELSE NoBlock],
     headers |-> [p \in BlockOffsets |-> Unwritten]]

Ok(v) == [ok |-> TRUE, val |-> v]
BadRequest == [ok |-> FALSE, val |-> 0]

get_allocation_size(in_size, alignment) ==
    IF ~is_power_of_two(alignment) THEN BadRequest
    ELSE IF alignment > MIN_PAGE_ALIGNMENT THEN BadRequest
    ELSE LET size0 == IF alignment > in_size THEN alignment ELSE in_size
             size == next_power_of_two(IF size0 >= min_block_size THEN size0
                                       ELSE min_block_size)
         IN IF size <= capacity THEN Ok(size) ELSE BadRequest

get_allocation_order(size, align) ==
    LET x == get_allocation_size(size, align) IN
    IF x.ok THEN Ok(ilog2(x.val) - ilog2(min_block_size)) ELSE x

get_required_block_size(order) == Pow2(ilog2(min_block_size) + order)

\* `ptr.read().next`.  Reading a header the allocator has not written reads
\* uninitialized memory: it yields `junk`, any value.
ReadNext(a, ptr, junk) ==
    IF a.headers[ptr] = Unwritten THEN junk ELSE a.headers[ptr]

\* A block_pop that returns the head of the list and leaves it in the list.
block_pop_kept(a, order, junk) ==
    IF a.freelists[order] = NoBlock THEN [ret |-> NoBlock, alloc |-> a]
    ELSE [ret |-> Block(a.freelists[order][1]), alloc |-> a]

\* block_pop: what it returns and the allocator after it.
block_pop(a, order, junk) ==
    IF a.freelists[order] = NoBlock THEN [ret |-> NoBlock, alloc |-> a]
    ELSE LET blk == a.freelists[order][1] IN
         [ret |-> Block(blk),
          alloc |-> [a EXCEPT !.freelists[order] =
                        IF order = DEPTH - 1 THEN NoBlock
                        ELSE ReadNext(a, blk, junk)]]

\* A block_insert that writes the header and leaves the head as it was.
block_insert_unlinked(a, order, block) ==
    [a EXCEPT !.headers[block] = a.freelists[order]]

block_insert(a, order, block) ==
    [a EXCEPT !.headers[block] = a.freelists[order],
              !.freelists[order] = Block(block)]

\* block_remove, from the slot `current` refers to: <<>> for
\* freelists[order], <<p>> for the `next` of the header at p.  A walk
\* longer than the region has blocks is a walk round a cycle: it never
\* ends.
RECURSIVE RemoveFrom(_, _, _, _, _, _)
RemoveFrom(a, order, block, current, junk, walked) ==
    LET ptr == IF current = <<>> THEN a.freelists[order]
               ELSE ReadNext(a, current[1], junk)
    IN IF walked > Cardinality(BlockOffsets)
       THEN [ret |-> FALSE, hangs |-> TRUE, alloc |-> a]
       ELSE IF ptr = NoBlock THEN [ret |-> FALSE, hangs |-> FALSE, alloc |-> a]
       ELSE IF ptr[1] = block
       THEN LET next == ReadNext(a, ptr[1], junk) IN
            [ret |-> TRUE, hangs |-> FALSE,
             alloc |-> IF current = <<>>
                       THEN [a EXCEPT !.freelists[order] = next]
                       ELSE [a EXCEPT !.headers[current[1]] = next]]
       ELSE RemoveFrom(a, order, block, ptr, junk, walked + 1)

block_remove(a, order, block, junk) == RemoveFrom(a, order, block, <<>>, junk, 0)

\* split_block: the loop, from `index`.
RECURSIVE SplitFrom(_, _, _, _, _)
SplitFrom(a, block, order, target, index) ==
    IF (order \div Pow2(index)) > target
    THEN LET next_index == index + 1
             split == block + (get_required_block_size(order) \div Pow2(next_index))
         IN SplitFrom(block_insert(a, order - next_index, split),
                      block, order, target, next_index)
    ELSE a

split_block(a, block, order, target) == SplitFrom(a, block, order, target, 0)

\* find_buddy: `relative ^ size` flips the one bit of `size`.
find_buddy(order, block) ==
    LET size == get_required_block_size(order) IN
    IF size < capacity
    THEN Block(IF (block \div size) % 2 = 0 THEN block + size ELSE block - size)
    ELSE NoBlock

\* raw_alloc: the orders from `order` up are tried until one has a block.
RECURSIVE AllocFrom(_, _, _, _)
AllocFrom(a, target, order, junk) ==
    IF order >= DEPTH THEN [ret |-> NoBlock, alloc |-> a]
    ELSE LET p == block_pop(a, order, junk) IN
         IF p.ret = NoBlock THEN AllocFrom(p.alloc, target, order + 1, junk)
         ELSE [ret |-> p.ret,
               alloc |-> IF order > target
                         THEN split_block(p.alloc, p.ret[1], order, target)
                         ELSE p.alloc]

raw_alloc(a, size, align, junk) ==
    LET target == get_allocation_order(size, align) IN
    IF target.ok THEN AllocFrom(a, target.val, target.val, junk)
    ELSE [ret |-> NoBlock, alloc |-> a]

\* raw_dealloc: the loop, from `order`.
RECURSIVE DeallocFrom(_, _, _, _)
DeallocFrom(a, block, order, junk) ==
    IF order >= DEPTH THEN [hangs |-> FALSE, alloc |-> a]
    ELSE LET buddy == find_buddy(order, block)
             removed == block_remove(a, order, block, junk)
         IN IF buddy # NoBlock /\ removed.hangs
            THEN [hangs |-> TRUE, alloc |-> a]
            ELSE IF buddy # NoBlock /\ removed.ret
            THEN DeallocFrom(removed.alloc,
                             IF block < buddy[1] THEN block ELSE buddy[1],
                             order + 1, junk)
            ELSE [hangs |-> FALSE, alloc |-> block_insert(a, order, block)]

\* raw_dealloc: whether it panics or never returns, and the allocator
\* after it.
raw_dealloc(a, ptr, size, align, junk) ==
    LET initial == get_allocation_order(size, align) IN
    IF ~initial.ok THEN [panic |-> TRUE, hangs |-> FALSE, alloc |-> a]
    ELSE LET d == DeallocFrom(a, ptr, initial.val, junk) IN
         [panic |-> FALSE, hangs |-> d.hangs, alloc |-> d.alloc]

---------------------------------------------------------------------------
(* The allocator used by a client that gives back what it was given. *)

\* The sizes and alignments the client asks for.
AllocSizes == {1, 64, 128, 129}
AllocAligns == {1, 32, 48, 8192}

\* What a read of uninitialized memory can yield.
Junk == {NoBlock} \cup {Block(p) : p \in BlockOffsets}

Allocator == [freelists |-> freelists, headers |-> headers]

\* raw_alloc(size, align).  The block it returns is the client's to write.
RawAlloc(size, align) ==
    /\ ~panicked
    /\ Cardinality(live) < MaxLive
    /\ \E junk \in Junk :
          LET r == raw_alloc(Allocator, size, align, junk) IN
          /\ freelists' = r.alloc.freelists
          /\ headers' = IF r.ret = NoBlock THEN r.alloc.headers
                        ELSE [r.alloc.headers EXCEPT ![r.ret[1]] = Unwritten]
          /\ live' = IF r.ret = NoBlock THEN live
                     ELSE live \cup {[ptr |-> r.ret[1], size |-> size, align |-> align]}
          /\ last' = [op |-> "raw_alloc", ret |-> r.ret]
    /\ UNCHANGED <<stack, frames, panicked, execVars, runVars, pushed, parseVars,
                   memVars>>

\* raw_dealloc of a live allocation, with the size and alignment it was
\* asked with.  A raw_dealloc that never returns ends the run as a panic
\* does.
RawDealloc(al) ==
    /\ ~panicked
    /\ al \in live
    /\ \E junk \in Junk :
          LET r == raw_dealloc(Allocator, al.ptr, al.size, al.align, junk) IN
          /\ freelists' = r.alloc.freelists
          /\ headers' = r.alloc.headers
          /\ panicked' = (r.panic \/ r.hangs)
          /\ live' = live \ {al}
          /\ last' = [op |-> "raw_dealloc", ret |-> Block(al.ptr)]
    /\ UNCHANGED <<stack, frames, execVars, runVars, pushed, parseVars,
                   memVars>>

InitBuddy ==
    /\ NewConstraintsHold
    /\ freelists = GeneralAllocatorNew.freelists
    /\ headers = GeneralAllocatorNew.headers
    /\ live = {}
    /\ stack = StackNew(0)
    /\ frames = <<>>
    /\ last = NoCall
    /\ panicked = FALSE
    /\ NoExec
    /\ NoRunner
    /\ NoHistory
    /\ NoParse
    /\ NoMemory

NextBuddy ==
    \/ \E size \in AllocSizes, align \in AllocAligns : RawAlloc(size, align)
    \/ \E al \in live : RawDealloc(al)

SpecBuddy == InitBuddy /\ [][NextBuddy]_vars

\* A client whose every request is one the allocator admits: the smallest
\* block, a block of 32 bytes, and the whole region.
Requests == {<<1, 1>>, <<1, 32>>, <<capacity, 1>>}

NextRegion ==
    \/ \E rq \in Requests : RawAlloc(rq[1], rq[2])
    \/ \E al \in live : RawDealloc(al)

SpecRegion == InitBuddy /\ [][NextRegion]_vars

---------------------------------------------------------------------------
(* loader/parser.rs: FileLayout::from_bytes.  A parser that returns        *)
(* Option<(T, &[u8])> is an operator that yields <<>> for None and         *)
(* <<value, remaining>> for Some.  A u32 is its two 16-bit halves, the low *)
(* one first; a u64 is a word.                                             *)

\* b"azimuth\0" and the u64 it spells.
MAGIC_STRING == <<97, 122, 105, 109, 117, 116, 104, 0>>
MAGIC_NUMBER == FromLeBytes(MAGIC_STRING)

\* u32::from_le_bytes and u16::from_le_bytes of the first bytes of a slice.
U32FromLeBytes(bytes) == <<bytes[1] + 256 * bytes[2], bytes[3] + 256 * bytes[4]>>
U16FromLeBytes(bytes) == bytes[1] + 256 * bytes[2]

\* `x as usize` for a u32.  The images of the model are far shorter than
\* 2^31 bytes, so a value from 2^31 on only has to be larger than any
\* length it is compared with.
AsUsize(x) == IF x[2] < 32768 THEN x[1] + 65536 * x[2] ELSE 2147483647

\* <[u8]>::split_at_checked.
split_at_checked(input, mid) ==
    IF mid <= Len(input)
    THEN <<SubSeq(input, 1, mid), SubSeq(input, mid + 1, Len(input))>>
    ELSE <<>>

\* String::from_utf8(..).is_ok().  The images of the model are written with
\* the bytes below 128, which are UTF-8 on their own, and with 254 and 255,
\* which no UTF-8 string contains.
IsUtf8(bytes) == \A i \in 1..Len(bytes) : bytes[i] < 128

TableEntry(kind, value) == [kind |-> kind, value |-> value]

\* TableEntry::HANDLERS.get(tag)?(x)?: the entry and the number of bytes it
\* takes, or <<>>.
TableEntryHandlers(tag, x) ==
    CASE tag = 0 -> IF Len(x) < 4 THEN <<>>
                    ELSE <<TableEntry("Integer", U32FromLeBytes(x)), 4>>
      [] tag = 1 -> IF Len(x) < 8 THEN <<>>
                    ELSE <<TableEntry("Long", FromLeBytes(x)), 8>>
      [] tag = 2 -> IF Len(x) < 4 THEN <<>>
                    ELSE <<TableEntry("Float", U32FromLeBytes(x)), 4>>
      [] tag = 3 -> IF Len(x) < 8 THEN <<>>
                    ELSE <<TableEntry("Double", FromLeBytes(x)), 8>>
      [] tag = 4 ->
            IF Len(x) < 4 THEN <<>>
            ELSE LET str_len == AsUsize(U32FromLeBytes(x)) IN
                 IF 4 + str_len > Len(x) THEN <<>>
                 ELSE LET str_bytes == SubSeq(x, 5, 4 + str_len) IN
                      IF IsUtf8(str_bytes)
                      THEN <<TableEntry("String", str_bytes), 4 + str_len>>
                      ELSE <<>>
      [] OTHER -> <<>>

\* Table::new(count, from): the loop, with the entries read so far.
RECURSIVE TableEntries(_, _, _)
TableEntries(count, remaining, entries) ==
    IF count = 0 THEN <<entries, remaining>>
    ELSE IF remaining = <<>> THEN <<>>
    ELSE LET tag == Head(remaining)
             res == Tail(remaining)
             parsed == TableEntryHandlers(tag, res)
         IN IF parsed = <<>> THEN <<>>
            ELSE LET split == split_at_checked(res, parsed[2]) IN
                 IF split = <<>> THEN <<>>
                 ELSE TableEntries(count - 1, split[2], Append(entries, parsed[1]))

TableNew(count, from) == TableEntries(count, from, <<>>)

\* Table::get.
TableGet(table, idx) ==
    IF AsUsize(idx) < Len(table) THEN <<table[AsUsize(idx) + 1]>> ELSE <<>>

\* parser.rs: enum Directive.
ParsedDirective(kind, a, b) == [kind |-> kind, a |-> a, b |-> b]

\* Directive::SYMBOL and Directive::HEADER_SIZE.
SYMBOL == 0
HEADER_SIZE == 2

\* Directive::HANDLERS: the operand bytes a directive takes, and the
\* directive its handler builds from them.
DirectiveOperandCount(x) ==
    CASE x = 0 -> 8 [] x = 1 -> 0 [] x = 2 -> 2 [] x = 3 -> 2

DirectiveHandler(x, operands) ==
    CASE x = 0 -> ParsedDirective("Symbol",
                                  U32FromLeBytes(SubSeq(operands, 1, 4)),
                                  U32FromLeBytes(SubSeq(operands, 5, 8)))
      [] x = 1 -> ParsedDirective("Start", 0, 0)
      [] x = 2 -> ParsedDirective("MaxStack", U16FromLeBytes(operands), 0)
      [] x = 3 -> ParsedDirective("MaxLocals", U16FromLeBytes(operands), 0)

\* A loop that reads a Symbol among the directives like any other one.
RECURSIVE FunctionDirectivesWithSymbols(_, _)
FunctionDirectivesWithSymbols(remaining, directives) ==
    IF Len(remaining) >= 2 /\ remaining[1] = Directive
    THEN LET x == remaining[2]
             res == SubSeq(remaining, 3, Len(remaining))
         IN IF x > 3 THEN <<>>
            ELSE LET split == split_at_checked(res, DirectiveOperandCount(x)) IN
                 IF split = <<>> THEN <<>>
                 ELSE FunctionDirectivesWithSymbols(split[2],
                          Append(directives, DirectiveHandler(x, split[1])))
    ELSE <<directives, remaining>>

\* FunctionInfo::new: the loop over the directives that follow the Symbol.
RECURSIVE FunctionDirectives(_, _)
FunctionDirectives(remaining, directives) ==
    IF Len(remaining) >= 2 /\ remaining[1] = Directive
    THEN LET x == remaining[2]
             res == SubSeq(remaining, 3, Len(remaining))
         IN IF x = SYMBOL THEN <<>>
            ELSE IF x > 3 THEN <<>>
            ELSE LET split == split_at_checked(res, DirectiveOperandCount(x)) IN
                 IF split = <<>> THEN <<>>
                 ELSE FunctionDirectives(split[2],
                          Append(directives, DirectiveHandler(x, split[1])))
    ELSE <<directives, remaining>>

FunctionInfo(directives, bytes) == [directives |-> directives, code |-> bytes]

\* FunctionInfo::new.
FunctionInfoNew(input, table) ==
    LET first == split_at_checked(input, DirectiveOperandCount(SYMBOL) + HEADER_SIZE) IN
    IF first = <<>> THEN <<>>
    ELSE LET symbol_operands == SubSeq(first[1], HEADER_SIZE + 1, Len(first[1]))
             symbol == DirectiveHandler(SYMBOL, symbol_operands)
             name == TableGet(table, symbol.a)
         IN IF name = <<>> THEN <<>>
            ELSE IF name[1].kind # "String" THEN <<>>
            ELSE LET dirs == FunctionDirectives(first[2], <<>>) IN
                 IF dirs = <<>> THEN <<>>
                 ELSE LET body == split_at_checked(dirs[2], AsUsize(symbol.b)) IN
                      IF body = <<>> THEN <<>>
                      ELSE <<FunctionInfo(dirs[1], body[1]), body[2]>>

\* FunctionInfo::get_all_functions: the loop, with the functions read so
\* far.
RECURSIVE AllFunctions(_, _, _)
AllFunctions(remaining, table, functions) ==
    IF Len(remaining) >= 2 /\ remaining[1] = Directive /\ remaining[2] = SYMBOL
    THEN LET function == FunctionInfoNew(remaining, table) IN
         IF function = <<>> THEN <<>>
         ELSE AllFunctions(function[2], table, Append(functions, function[1]))
    ELSE <<functions, remaining>>

get_all_functions(input, table) == AllFunctions(input, table, <<>>)

FileLayout(magic, version, constant_count, constant_pool, functions) ==
    [magic |-> magic, version |-> version, constant_count |-> constant_count,
     constant_pool |-> constant_pool, functions |-> functions]

\* FileLayout::from_bytes: <<>> for None, <<layout>> for Some(layout).
from_bytes(input) ==
    LET magic == split_at_checked(input, 8) IN
    IF magic = <<>> THEN <<>>
    ELSE IF magic[2] = <<>> THEN <<>>
    ELSE LET version == Head(magic[2])
             count == split_at_checked(Tail(magic[2]), 4)
         IN IF count = <<>> THEN <<>>
            ELSE LET constant_count == U32FromLeBytes(count[1])
                     constant_pool == TableNew(AsUsize(constant_count), count[2])
                 IN IF constant_pool = <<>> THEN <<>>
                    ELSE LET functions ==
                                 get_all_functions(constant_pool[2], constant_pool[1])
                         IN IF functions = <<>> THEN <<>>
                            ELSE <<FileLayout(FromLeBytes(magic[1]), version,
                                              constant_count, constant_pool[1],
                                              functions[1])>>

---------------------------------------------------------------------------
(* The images FileLayout::from_bytes is given.  An image is written field  *)
(* by field in the binary format (a header, the constant entries, the      *)
(* function records) and then cut after any number of bytes; the state     *)
(* keeps what was written beside the bytes.                                *)

\* A u32 below 65536 and a u16 below 256, little-endian.
EncodeU32(n) == <<n % 256, n \div 256, 0, 0>>
EncodeU16(n) == <<n, 0>>

\* The fields of an image, one after the other.
RECURSIVE Concat(_)
Concat(fields) ==
    IF fields = <<>> THEN <<>> ELSE Head(fields) \o Concat(Tail(fields))

\* Constant entries: a tag byte and the payload.
IntegerEntry == <<0, 7, 0, 1, 0>>
StringEntry(bytes) == <<4>> \o EncodeU32(Len(bytes)) \o bytes

\* The constant pools of the model, an entry per field, and the indices of
\* their String entries.
ConstantPools ==
    {<<>>,
     <<StringEntry(<<109>>)>>,
     <<StringEntry(<<97>>), StringEntry(<<>>)>>,
     <<IntegerEntry, StringEntry(<<109>>)>>}
StringIndices(pool) == {i \in 0..(Len(pool) - 1) : pool[i + 1][1] = 4}

\* Directives as they are encoded.
SymbolBytes(name_idx, code_length) ==
    <<Directive, SYMBOL>> \o EncodeU32(name_idx) \o EncodeU32(code_length)
StartBytes == <<Directive, 1>>
MaxStackBytes(n) == <<Directive, 2>> \o EncodeU16(n)
MaxLocalsBytes(n) == <<Directive, 3>> \o EncodeU16(n)

\* A function record as written: the index of its name, the directives
\* that follow its Symbol (a field each) and its code.
Record(name_idx, directives, body) ==
    [name_idx |-> name_idx, directives |-> directives, code |-> body]
DirectiveLists ==
    {<<>>,
     <<StartBytes>>,
     <<MaxStackBytes(2), MaxLocalsBytes(1)>>,
     <<StartBytes, SymbolBytes(0, 0)>>}
Records ==
    {Record(n, d, <<1, 25>>) : n \in 0..1, d \in DirectiveLists}
RecordFields(r) ==
    <<SymbolBytes(r.name_idx, Len(r.code))>> \o r.directives \o <<r.code>>

RECURSIVE RecordsFields(_)
RecordsFields(records) ==
    IF records = <<>> THEN <<>>
    ELSE RecordFields(Head(records)) \o RecordsFields(Tail(records))

\* What is written: a magic, a constant pool and function records.
WrongMagic == <<97, 122, 105, 109, 117, 116, 104, 1>>
Written ==
    [magic : {MAGIC_STRING, WrongMagic},
     pool : ConstantPools,
     records : UNION {[1..n -> Records] : n \in 0..MaxFunctions}]

Fields(w) ==
    <<w.magic, <<1>>, EncodeU32(Len(w.pool))>> \o w.pool \o RecordsFields(w.records)

\* A function record is well formed: its name is a String of the pool and
\* no Symbol follows its own.
RecordWellFormed(r, pool) ==
    /\ r.name_idx \in StringIndices(pool)
    /\ \A i \in 1..Len(r.directives) : r.directives[i][2] # SYMBOL

\* An image is well formed: it has the magic, and well-formed records.
WellFormed(w) ==
    /\ w.magic = MAGIC_STRING
    /\ \A i \in 1..Len(w.records) : RecordWellFormed(w.records[i], w.pool)

\* The image cut after `cut` bytes.
Image(w, cut) ==
    [bytes |-> SubSeq(Concat(Fields(w)), 1, cut), written |-> w, cut |-> cut]

InitParser ==
    /\ \E w \in Written : \E cut \in 0..Len(Concat(Fields(w))) :
          image = Image(w, cut)
    /\ layout = NotParsed
    /\ made = NotParsed
    /\ stack = StackNew(0)
    /\ frames = <<>>
    /\ last = NoCall
    /\ panicked = FALSE
    /\ NoExec
    /\ NoRunner
    /\ NoAllocator
    /\ NoHistory
    /\ NoMemory

\* FileLayout::from_bytes(image).
FromBytes ==
    /\ layout = NotParsed
    /\ layout' = [state |-> "returned", ret |-> from_bytes(image.bytes)]
    /\ UNCHANGED <<stack, frames, last, panicked, execVars, runVars, buddyVars,
                   pushed, image, made, memVars>>

NextParser == FromBytes

SpecParser == InitParser /\ [][NextParser]_vars

---------------------------------------------------------------------------
(* loader/runnable.rs: Runnable::from_parsed_data.                         *)

\* runnable.rs: enum Directive.
RunnableDirective(kind, value) == [kind |-> kind, value |-> value]

\* matches!(x, Directive::MaxStack(_) | Directive::MaxLocals(_)), and not.
IsRequired(d) == d.kind \in {"MaxStack", "MaxLocals"}
IsResidual(d) == ~IsRequired(d)

\* A fold in which a later MaxStack or MaxLocals replaces the earlier one.
RECURSIVE RequiredFoldLastWins(_, _, _)
RequiredFoldLastWins(required, max_stack, max_locals) ==
    IF required = <<>> THEN <<max_stack, max_locals>>
    ELSE LET d == Head(required) IN
         IF d.kind = "MaxStack"
         THEN RequiredFoldLastWins(Tail(required), <<d.value>>, max_locals)
         ELSE RequiredFoldLastWins(Tail(required), max_stack, <<d.value>>)

\* The loop over the required directives: `replace` returns the value the
\* slot held, and the construction fails when it held one.  A slot is <<>>
\* for None and <<v>> for Some(v).
RECURSIVE RequiredFold(_, _, _)
RequiredFold(required, max_stack, max_locals) ==
    IF required = <<>> THEN <<max_stack, max_locals>>
    ELSE LET d == Head(required) IN
         IF d.kind = "MaxStack"
         THEN IF max_stack # <<>> THEN <<>>
              ELSE RequiredFold(Tail(required), <<d.value>>, max_locals)
         ELSE IF max_locals # <<>> THEN <<>>
              ELSE RequiredFold(Tail(required), max_stack, <<d.value>>)

\* Runnable::from_parsed_data: <<>> for None, <<runnable>> for Some.
from_parsed_data(directives, bytes) ==
    LET required == SelectSeq(directives, IsRequired)
        residual == SelectSeq(directives, IsResidual)
        slots == RequiredFold(required, <<>>, <<>>)
    IN IF slots = <<>> THEN <<>>
       ELSE IF slots[1] = <<>> \/ slots[2] = <<>> THEN <<>>
       ELSE <<Runnable(slots[1][1], slots[2][1], residual, bytes)>>

\* The directive lists and the bytecode a Runnable is made from.
RunnableDirectives ==
    {RunnableDirective("Start", 0), RunnableDirective("MaxStack", 2),
     RunnableDirective("MaxStack", 3), RunnableDirective("MaxLocals", 1)}
DirectiveSeqs == UNION {[1..n -> RunnableDirectives] : n \in 0..MaxDirectives}

InitRunnable ==
    /\ \E d \in DirectiveSeqs, c \in {<<>>, <<1, 25>>} :
          made = [state |-> "none", directives |-> d, bytecode |-> c]
    /\ image = NoImage
    /\ layout = NotParsed
    /\ stack = StackNew(0)
    /\ frames = <<>>
    /\ last = NoCall
    /\ panicked = FALSE
    /\ NoExec
    /\ NoRunner
    /\ NoAllocator
    /\ NoHistory
    /\ NoMemory

\* Runnable::from_parsed_data(directives, bytecode).
FromParsedData ==
    /\ made.state = "none"
    /\ made' = [state |-> "returned", directives |-> made.directives,
                bytecode |-> made.bytecode,
                ret |-> from_parsed_data(made.directives, made.bytecode)]
    /\ UNCHANGED <<stack, frames, last, panicked, execVars, runVars, buddyVars,
                   pushed, image, layout, memVars>>

NextRunnable == FromParsedData

SpecRunnable == InitRunnable /\ [][NextRunnable]_vars

---------------------------------------------------------------------------
(* memory/allocators/arena.rs: ArenaAllocator.  A usize is a u64 word; a   *)
(* pointer is its offset from the page-aligned base of the arena.          *)

\* The word of a number below 2^31.
IntoWord(n) == <<n % LIMB, (n \div LIMB) % LIMB, 0, 0>>

USIZE_MAX == <<MaxLimb, MaxLimb, MaxLimb, MaxLimb>>

WordLessEq(a, b) == ~WordLess(b, a)

\* lhs % rhs, for rhs > 0.  A divisor of one limb and at most 2^15 is
\* taken limb by limb from the highest, the remainder carried down; any
\* other by the long division.
WordRem(lhs, rhs) ==
    IF rhs[2] = 0 /\ rhs[3] = 0 /\ rhs[4] = 0 /\ rhs[1] <= LIMB \div 2
    THEN LET m == rhs[1]
             r4 == lhs[4] % m
             r3 == (r4 * LIMB + lhs[3]) % m
             r2 == (r3 * LIMB + lhs[2]) % m
         IN Word((r2 * LIMB + lhs[1]) % m)
    ELSE WordDivRem(lhs, rhs).rem

\* usize::next_multiple_of: division by zero panics in every build, and the
\* addition panics on overflow or wraps, as the build has it.
next_multiple_of(lhs, rhs, checks) ==
    IF IsZeroWord(rhs) THEN Panics
    ELSE LET r == WordRem(lhs, rhs) IN
         IF IsZeroWord(r) THEN Value(lhs)
         ELSE Checked(WordAdd(lhs, WordSub(rhs, r).val), checks)

\* ArenaAllocator::from_existing_allocation, and with_capacity when the
\* system allocator gives the memory.
ArenaAllocator(size) == [head_offset |-> ZeroEntry, capacity |-> size]

\* What a call of the arena yields: whether it panicked, what it returned
\* and the arena after it.
ArenaOut(panic, ret, a) == [panic |-> panic, ret |-> ret, arena |-> a]

\* ArenaAllocator::raw_alloc.
arena_raw_alloc(a, size, align, checks) ==
    LET adjusted_size == next_multiple_of(size, align, checks)
        sum == IF adjusted_size.panic THEN Panics
               ELSE Checked(WordAdd(adjusted_size.val, a.head_offset), checks)
    IN IF sum.panic THEN ArenaOut(TRUE, None, a)
       ELSE IF WordLessEq(sum.val, a.capacity)
       THEN ArenaOut(FALSE, Some(a.head_offset),
                     [a EXCEPT !.head_offset = sum.val])
       ELSE ArenaOut(FALSE, None, a)

\* A release_all that leaves the head where it is.
release_all_kept(a) == a

\* ArenaAllocator::release_all.
release_all(a) == [a EXCEPT !.head_offset = ZeroEntry]

\* The sizes and alignments the client of the arena asks for.
ArenaSizes ==
    {Word(0), Word(1), Word(3), Word(8), Word(ArenaCapacity), USIZE_MAX}
ArenaAligns == {Word(1), Word(2), Word(8)}

\* A region handed out: where it starts, and the request it answers.
Region(ptr, size, align) == [ptr |-> ptr, size |-> size, align |-> align]

InitArena ==
    /\ arena = [state |-> "made", alloc |-> ArenaAllocator(Word(ArenaCapacity)),
                given |-> <<>>, refused |-> <<>>, released |-> FALSE]
    /\ heap = NoHeap
    /\ overflow_checks \in BOOLEAN
    /\ bytecode = <<>>
    /\ result = NoResult
    /\ stack = StackNew(0)
    /\ frames = <<>>
    /\ last = NoCall
    /\ panicked = FALSE
    /\ NoRunner
    /\ NoAllocator
    /\ NoHistory
    /\ NoParse

\* raw_alloc(size, align).  `given` keeps the regions handed out since the
\* last release_all, and `refused` the last request turned down before the
\* first release_all.
ArenaRawAlloc(size, align) ==
    /\ ~panicked
    /\ Len(arena.given) < MaxGiven
    /\ \E r \in {arena_raw_alloc(arena.alloc, size, align, overflow_checks)} :
       /\ panicked' = r.panic
       /\ last' = Call("raw_alloc", r.ret)
       /\ arena' = [arena EXCEPT
                      !.alloc = r.arena,
                      !.given = IF r.ret.some
                                THEN Append(@, Region(r.ret.val, size, align))
                                ELSE @,
                      !.refused = IF r.ret.some \/ r.panic \/ arena.released
                                  THEN @ ELSE <<size, align>>]
    /\ UNCHANGED <<stack, frames, execVars, runVars, buddyVars, pushed,
                   parseVars, heap>>

\* release_all().
ArenaReleaseAll ==
    /\ ~panicked
    /\ arena' = [arena EXCEPT !.alloc = release_all(@), !.given = <<>>,
                              !.released = TRUE]
    /\ last' = Call("release_all", None)
    /\ UNCHANGED <<stack, frames, panicked, execVars, runVars, buddyVars,
                   pushed, parseVars, heap>>

NextArena ==
    \/ \E size \in ArenaSizes, align \in ArenaAligns : ArenaRawAlloc(size, align)
    \/ ArenaReleaseAll

SpecArena == InitArena /\ [][NextArena]_vars

---------------------------------------------------------------------------
(* memory/heap.rs: Heap.  Addresses are offsets from the page-aligned base *)
(* of the one allocation the heap is carved from.  The teen and adult      *)
(* pools are GeneralAllocators of depth 16 over their own windows, so the  *)
(* operations of general.rs a Heap reaches are given here for a pool that  *)
(* carries its base, capacity and depth.                                   *)

TEEN_COUNT == 2
TEEN_ALLOCATOR_DEPTH == 16
ADULT_ALLOCATOR_DEPTH == 16

Ratio(first, second) == <<first, second>>
YOUNG_OLD_RATIO == Ratio(1, 2)
INFANT_TEEN_RATIO == Ratio(15, 1)

\* Ratio::split: the share is computed in f64 and rounded to the nearest
\* integer, halves away from zero.  For the capacities of the model the
\* f64 product is within 2^-20 of the exact quotient, which is a multiple
\* of 1/3 or of 1/16, so rounding the exact quotient gives the same.
RatioSplit(ratio, value) ==
    LET total == ratio[1] + ratio[2]
        first == (2 * ratio[1] * value + total) \div (2 * total)
    IN <<first, value - first>>

\* The value of a word below 2^31.
WordValue(w) == w[1] + w[2] * LIMB

\* GeneralAllocator::new for a pool of the heap: <<>> for an Err.
PoolNew(base, size, depth) ==
    LET min_size == size \div Pow2(depth - 1) IN
    IF base % MIN_PAGE_ALIGNMENT # 0 THEN <<>>
    ELSE IF size < min_size THEN <<>>
    ELSE IF min_size < BlockHeaderSize THEN <<>>
    ELSE IF ~is_power_of_two(size) THEN <<>>
    ELSE <<[base |-> base, capacity |-> size, min_block_size |-> min_size,
            freelists |-> [o \in 0..(depth - 1) |->
                              IF o = depth - 1 THEN Block(base) ELSE NoBlock],
            headers |-> <<>>]>>

\* contains(ptr): address-range membership in the window of an allocator.
contains(base, size, ptr) == base <= ptr /\ ptr < base + size

\* A teen window that starts a whole teen capacity after the one before.
TeenBaseWhole(teen_base, teen_capacity, x) == teen_base + teen_capacity * x

\* Where the window of teen pool x starts.
TeenBase(teen_base, teen_capacity, x) ==
    teen_base + (teen_capacity * x) \div TEEN_COUNT

\* Heap::with_capacity: <<>> for an Err.
HeapWithCapacity(size) ==
    LET young_old == RatioSplit(YOUNG_OLD_RATIO, size)
        infant_teen == RatioSplit(INFANT_TEEN_RATIO, young_old[1])
        infant_capacity == next_power_of_two(infant_teen[1])
        teen_capacity == next_power_of_two(infant_teen[2])
        adult_capacity == next_power_of_two(young_old[2])
        teen_base == infant_capacity
        adult_base == teen_base + teen_capacity
        teen == [x \in 0..(TEEN_COUNT - 1) |->
                    PoolNew(TeenBase(teen_base, teen_capacity, x),
                            teen_capacity \div TEEN_COUNT,
                            TEEN_ALLOCATOR_DEPTH)]
        adult == PoolNew(adult_base, adult_capacity, ADULT_ALLOCATOR_DEPTH)
    IN IF \E x \in 0..(TEEN_COUNT - 1) : teen[x] = <<>> THEN <<>>
       ELSE IF adult = <<>> THEN <<>>
       ELSE <<[infant |-> ArenaAllocator(IntoWord(infant_capacity)),
               teen |-> [x \in 0..(TEEN_COUNT - 1) |-> teen[x][1]],
               adult |-> adult[1]]>>

\* get_allocation_size and get_allocation_order, for a pool.
PoolAllocationOrder(pool, in_size, alignment) ==
    IF ~is_power_of_two(alignment) THEN BadRequest
    ELSE IF alignment > MIN_PAGE_ALIGNMENT THEN BadRequest
    ELSE LET size0 == IF alignment > in_size THEN alignment ELSE in_size
             size == next_power_of_two(IF size0 >= pool.min_block_size
                                       THEN size0 ELSE pool.min_block_size)
         IN IF size <= pool.capacity
            THEN Ok(ilog2(size) - ilog2(pool.min_block_size))
            ELSE BadRequest

\* get_required_block_size, for a pool.
PoolBlockSize(pool, order) == Pow2(ilog2(pool.min_block_size) + order)

\* find_buddy, for a pool.
PoolFindBuddy(pool, order, block) ==
    LET size == PoolBlockSize(pool, order)
        relative == block - pool.base
    IN IF size < pool.capacity
       THEN Block(pool.base + (IF (relative \div size) % 2 = 0
                               THEN relative + size ELSE relative - size))
       ELSE NoBlock

\* `ptr.read().next` in a pool: a header the allocator has not written
\* reads as `junk`, any value.
PoolReadNext(pool, ptr, junk) ==
    IF ptr \in DOMAIN pool.headers THEN pool.headers[ptr] ELSE junk

\* block_insert, for a pool.
PoolBlockInsert(pool, order, block) ==
    [pool EXCEPT !.headers = (block :> pool.freelists[order]) @@ @,
                 !.freelists[order] = Block(block)]

\* block_remove, for a pool, from the slot `current` refers to.
RECURSIVE PoolRemoveFrom(_, _, _, _, _, _)
PoolRemoveFrom(pool, order, block, current, junk, walked) ==
    LET ptr == IF current = <<>> THEN pool.freelists[order]
               ELSE PoolReadNext(pool, current[1], junk)
    IN IF walked > Cardinality(DOMAIN pool.headers) + 1
       THEN [ret |-> FALSE, hangs |-> TRUE, pool |-> pool]
       ELSE IF ptr = NoBlock THEN [ret |-> FALSE, hangs |-> FALSE, pool |-> pool]
       ELSE IF ptr[1] = block
       THEN LET next == PoolReadNext(pool, ptr[1], junk) IN
            [ret |-> TRUE, hangs |-> FALSE,
             pool |-> IF current = <<>>
                      THEN [pool EXCEPT !.freelists[order] = next]
                      ELSE [pool EXCEPT !.headers = (current[1] :> next) @@ @]]
       ELSE PoolRemoveFrom(pool, order, block, ptr, junk, walked + 1)

\* raw_dealloc, for a pool: the loop, from `order`.
RECURSIVE PoolDeallocFrom(_, _, _, _)
PoolDeallocFrom(pool, block, order, junk) ==
    IF order >= Cardinality(DOMAIN pool.freelists)
    THEN [hangs |-> FALSE, pool |-> pool]
    ELSE LET buddy == PoolFindBuddy(pool, order, block)
             removed == PoolRemoveFrom(pool, order, block, <<>>, junk, 0)
         IN IF buddy # NoBlock /\ removed.hangs
            THEN [hangs |-> TRUE, pool |-> pool]
            ELSE IF buddy # NoBlock /\ removed.ret
            THEN PoolDeallocFrom(removed.pool,
                                 IF block < buddy[1] THEN block ELSE buddy[1],
                                 order + 1, junk)
            ELSE [hangs |-> FALSE, pool |-> PoolBlockInsert(pool, order, block)]

\* GeneralAllocator::dealloc::<T>, for a pool: raw_dealloc with the size and
\* alignment of T.
PoolDealloc(pool, ptr, size, align, junk) ==
    LET initial == PoolAllocationOrder(pool, size, align) IN
    IF ~initial.ok THEN [panic |-> TRUE, hangs |-> FALSE, pool |-> pool]
    ELSE LET d == PoolDeallocFrom(pool, ptr, initial.val, junk) IN
         [panic |-> FALSE, hangs |-> d.hangs, pool |-> d.pool]

\* Heap::raw_alloc: the infant arena is tried, and tried again.
heap_raw_alloc(h, size, align, checks) ==
    LET first == arena_raw_alloc(h.infant, size, align, checks)
        h1 == [h EXCEPT !.infant = first.arena]
        second == arena_raw_alloc(h1.infant, size, align, checks)
    IN IF first.panic THEN [panic |-> TRUE, ret |-> None, heap |-> h]
       ELSE IF first.ret.some THEN [panic |-> FALSE, ret |-> first.ret, heap |-> h1]
       ELSE [panic |-> second.panic, ret |-> second.ret,
             heap |-> [h1 EXCEPT !.infant = second.arena]]

\* PoolType, and None.
PoolType(kind, index) == [kind |-> kind, index |-> index]
NoPool == PoolType("None", 0)

\* Heap::get_pool.
get_pool(h, ptr) ==
    LET teens == {x \in DOMAIN h.teen :
                     contains(h.teen[x].base, h.teen[x].capacity, ptr)}
    IN IF contains(0, WordValue(h.infant.capacity), ptr) THEN PoolType("Infant", 0)
       ELSE IF teens # {}
       THEN PoolType("Teen", CHOOSE x \in teens : \A y \in teens : x <= y)
       ELSE IF contains(h.adult.base, h.adult.capacity, ptr) THEN PoolType("Adult", 0)
       ELSE NoPool

\* Heap::dealloc::<T>.
heap_dealloc(h, ptr, size, align, junk) ==
    LET pool == get_pool(h, ptr) IN
    IF pool.kind = "Teen"
    THEN LET d == PoolDealloc(h.teen[pool.index], ptr, size, align, junk) IN
         [panic |-> d.panic, hangs |-> d.hangs,
          heap |-> [h EXCEPT !.teen[pool.index] = d.pool]]
    ELSE IF pool.kind = "Adult"
    THEN LET d == PoolDealloc(h.adult, ptr, size, align, junk) IN
         [panic |-> d.panic, hangs |-> d.hangs, heap |-> [h EXCEPT !.adult = d.pool]]
    ELSE [panic |-> FALSE, hangs |-> FALSE, heap |-> h]

\* The capacities a Heap is asked for: one too small for the pools, and two
\* that give pools of different sizes.
HeapCapacities == {1024, 25165824, 25169920}

\* The sizes and alignments the client of the heap asks for: nothing, a
\* word, the whole infant arena, and the largest usize.
HeapSizes ==
    IF heap.state = "made"
    THEN {Word(0), Word(8), heap.pools.infant.capacity, USIZE_MAX}
    ELSE {}
HeapAligns == {Word(1), Word(8)}

\* What a read of uninitialized memory can yield.
HeapJunk(h) == {NoBlock, Block(h.teen[0].base)}

\* The pointers handed out and not yet given back.
Held == IF heap.state = "made" THEN heap.given ELSE {}

InitHeap ==
    /\ \E c \in HeapCapacities :
          heap = IF HeapWithCapacity(c) = <<>>
                 THEN [state |-> "failed", capacity |-> c]
                 ELSE [state |-> "made", capacity |-> c,
                       pools |-> HeapWithCapacity(c)[1], given |-> {},
                       handed |-> 0]
    /\ arena = NoArena
    /\ overflow_checks \in BOOLEAN
    /\ bytecode = <<>>
    /\ result = NoResult
    /\ stack = StackNew(0)
    /\ frames = <<>>
    /\ last = NoCall
    /\ panicked = FALSE
    /\ NoRunner
    /\ NoAllocator
    /\ NoHistory
    /\ NoParse

\* Heap::raw_alloc(size, align).  `given` keeps the pointers handed out and
\* not yet given back, with the size and alignment asked, and `handed`
\* counts the pointers handed out.
HeapRawAlloc(size, align) ==
    /\ ~panicked
    /\ heap.state = "made"
    /\ heap.handed < MaxHanded
    /\ \E r \in {heap_raw_alloc(heap.pools, size, align, overflow_checks)} :
       /\ panicked' = r.panic
       /\ last' = Call("raw_alloc", r.ret)
       /\ heap' = [heap EXCEPT
                     !.pools = r.heap,
                     !.given = IF r.ret.some
                               THEN @ \cup {Region(r.ret.val, size, align)}
                               ELSE @,
                     !.handed = IF r.ret.some THEN @ + 1 ELSE @]
    /\ UNCHANGED <<stack, frames, execVars, runVars, buddyVars, pushed,
                   parseVars, arena>>

\* Heap::dealloc::<T>(ptr), for a pointer the heap handed out and the T it
\* was asked for; no T is as large as 2^31 in the model.  A dealloc that
\* never returns ends the run as a panic does.
HeapDealloc(g) ==
    /\ ~panicked
    /\ heap.state = "made"
    /\ g \in heap.given
    /\ g.size[3] = 0 /\ g.size[4] = 0
    /\ \E junk \in HeapJunk(heap.pools) :
       \E r \in {heap_dealloc(heap.pools, WordValue(g.ptr), WordValue(g.size),
                              WordValue(g.align), junk)} :
       /\ panicked' = (r.panic \/ r.hangs)
       /\ last' = Call("dealloc", Some(g.ptr))
       /\ heap' = [heap EXCEPT !.pools = r.heap, !.given = @ \ {g}]
    /\ UNCHANGED <<stack, frames, execVars, runVars, buddyVars, pushed,
                   parseVars, arena>>

NextHeap ==
    \/ \E size \in HeapSizes, align \in HeapAligns : HeapRawAlloc(size, align)
    \/ \E g \in Held : HeapDealloc(g)

SpecHeap == InitHeap /\ [][NextHeap]_vars

---------------------------------------------------------------------------
(* Claims about the frames, checked under SpecFrame. *)

\* The window the frame was asked for: its locals and its operand stack.
WindowEnd(f) == f.locals_base + f.locals_size + f.stack_size
Window(f) == f.locals_base..(WindowEnd(f) - 1)

\* C1: for every StackFrame, after any sequence of push, pop, peek,
\* get_local and set_local calls, 0 <= stack_pointer <= size, where size is
\* the capacity of the frame's operand stack (the stack_size it was created
\* with).
C1_StackPointerWithinCapacity ==
    \A i \in 1..Len(frames) :
        /\ 0 <= frames[i].stack_pointer
        /\ frames[i].stack_pointer <= frames[i].stack_size

\* C2: push on a full operand stack (stack_pointer equal to the capacity of
\* the operand stack) returns false and leaves stack_pointer and every entry
\* of the Stack unchanged; push returns true only when sp < size.
C2_PushOnFullStackFails ==
    [][last'.op = "push" =>
        /\ Active.stack_pointer = Active.stack_size =>
              /\ ~last'.ret.some
              /\ ~panicked'
              /\ UNCHANGED frameVars
        /\ last'.ret.some => Active.stack_pointer < Active.stack_size]_vars

\* C10: in every chain of nested frames the child's window starts at or
\* above the end of its parent's window and lies within the Stack's
\* capacity, and no push or set_local made through the child changes an
\* entry inside an ancestor's window.
C10_ChildAboveParent ==
    \A i \in 2..Len(frames) :
        /\ frames[i].locals_base >= WindowEnd(frames[i - 1])
        /\ WindowEnd(frames[i]) <= StackLen(stack)

C10_AncestorsUntouched ==
    last'.op \in {"push", "set_local"} =>
        \A i \in 1..(Depth - 1) : \A k \in Window(frames[i]) \cap DOMAIN stack :
            stack'[k] = stack[k]

C10_FrameIsolation ==
    C10_ChildAboveParent /\ [][C10_ChildAboveParent' /\ C10_AncestorsUntouched]_vars


\* C11: get_local(i) and set_local(i, v) succeed if and only if
\* locals_base + i < stack_base; for every larger i they return None and
\* set_local leaves the Stack unchanged, so that the locals operations
\* never read or write a slot of the operand stack or outside the frame.
C11_LocalsWithinLocals ==
    [][\A i \in 0..StackCap :
          LET inside == Active.locals_base + i < Active.stack_base IN
          /\ get_local(i) => (last'.ret.some <=> inside) /\ ~panicked'
          /\ \A v \in FrameValues :
                set_local(i, v) =>
                    /\ last'.ret.some <=> inside
                    /\ ~panicked'
                    /\ ~inside => stack' = stack]_vars

\* C12: peek returns exactly the value a pop called next would return (the
\* top live entry of the operand stack), None when the operand stack is
\* empty, and changes neither stack_pointer nor any entry of the Stack.
C12_PeekIsPopWithoutMutation ==
    [][last'.op = "peek" =>
          /\ last'.ret = FramePop(stack, Active).ret
          /\ ~panicked'
          /\ UNCHANGED frameVars]_vars

C17_NextFrameFitsAboveParent ==
    [][\A l \in FrameArgs, s \in FrameArgs :
          with_next_frame(l, s) =>
              IF WindowEnd(Active) + l + s > StackLen(stack)
              THEN last' = Call("with_next_frame", Bool(FALSE)) /\ frames' = frames
              ELSE last' = Call("action", Bool(TRUE)) /\ Len(frames') = Depth + 1]_vars

\* set_local(index, _) succeeds on the active frame: it returns Some.
SetLocalSucceeds(index) ==
    FrameSetLocal(stack, Active, index, ZeroEntry).ret.some

\* C15: once set_local(i, v) has succeeded, get_local(i) returns v until the
\* next set_local on the same index, whatever pushes and pops happen in
\* between, and set_local returns the value the local held before.  Step by
\* step: a successful set_local(i, v) returns the old value of local i and
\* makes get_local(i) return v, and a push or a pop changes no local that
\* set_local accepts.
C15_LocalsKeepTheirValue ==
    [][\A i \in 0..StackCap :
          /\ \A v \in FrameValues :
                (set_local(i, v) /\ last'.ret.some) =>
                    /\ last'.ret = FrameGetLocal(stack, Active, i).ret
                    /\ FrameGetLocal(stack', frames'[Depth], i).ret = Some(v)
          /\ (last'.op \in {"push", "pop"} /\ ~panicked' /\ SetLocalSucceeds(i)) =>
                FrameGetLocal(stack', frames'[Depth], i).ret
                    = FrameGetLocal(stack, Active, i).ret]_vars

---------------------------------------------------------------------------
(* Claims about pushes and pops on one frame, checked under SpecLifo. *)

\* C14: for any sequence of pushes and pops on one frame, pop returns the
\* most recently pushed value that has not yet been popped, with all its 64
\* bits; pop on an empty operand stack returns None and leaves the stack
\* pointer unchanged.
C14_PopIsLifo ==
    [][last'.op = "pop" /\ pop_recorded =>
          /\ ~panicked'
          /\ IF pushed = <<>>
             THEN /\ last'.ret = None
                  /\ frames'[Depth].stack_pointer = Active.stack_pointer
             ELSE last'.ret = Some(pushed[Len(pushed)])]_vars

\* Two values were pushed, the later was popped, and the pop that follows
\* gives the earlier one, a value above 2^32, back.
C14_Witness ==
    /\ last = Call("pop", Some(<<0, 0, 2, 0>>))
    /\ pushed = <<>>
    /\ Active.stack_pointer = 0
    /\ Active.stack_base = 1
    /\ stack[Active.stack_base + 1] = Word(1)

---------------------------------------------------------------------------
(* Claims about exec_instruction, checked under SpecExec. *)

\* The step that executes an instruction whose opcode byte is `opcode`.
Executes(opcode) ==
    /\ result = NoResult
    /\ result' # NoResult
    /\ bytecode' # <<>>
    /\ Head(bytecode') = opcode

\* The opcode bytes the catalog assigns no instruction to.
UnassignedOpcodes == Byte \ AssignedOpcodes

\* The operand stack of the active frame has room for one more entry.
HasRoom == Active.stack_pointer < Active.stack_size

\* The step pushed `value`: one more entry, `value` on top.
Pushed(value) ==
    /\ frames'[Depth].stack_pointer = Active.stack_pointer + 1
    /\ stack'[Active.stack_base + Active.stack_pointer] = value

\* C3: for every opcode byte o in 0..255 the entry of the handler table at
\* index o carries the expected opcode o, so the alignment assertion of
\* exec_instruction never fails.
C3_TableAligned ==
    /\ \A o \in Byte : OpcodeAsU8(HandlerGet(o).opcode) = o
    /\ result # Panic("HANDLERS Array invalid: misaligned opcode")

\* C4: exec_instruction on any unassigned opcode byte returns
\* Err(IllegalOpcode); it does not abort the process and does not change
\* the frame.
C4_UnassignedIsIllegalOpcode ==
    [][\A o \in UnassignedOpcodes :
          Executes(o) =>
              /\ result' = Err("IllegalOpcode")
              /\ ~panicked'
              /\ UNCHANGED frameVars]_vars

\* C7: with room on the operand stack, i.const pushes its one operand byte
\* zero-extended to 64 bits and i.const.w pushes its two operand bytes,
\* little-endian, zero-extended, both returning Next, whatever bytes follow
\* the operands in the code.
C7_ConstPushesOperand ==
    [][/\ (Executes(OpcodeAsU8("IConst")) /\ Len(bytecode') >= 2 /\ HasRoom) =>
              /\ result' = Next
              /\ Pushed(Word(bytecode'[2]))
       /\ (Executes(OpcodeAsU8("IConstW")) /\ Len(bytecode') >= 3 /\ HasRoom) =>
              /\ result' = Next
              /\ Pushed(Word(bytecode'[2] + 256 * bytecode'[3]))]_vars

\* C8: i.div with a zero divisor returns Err(IllegalParam) rather than
\* aborting the process or pushing a result; the divisor is the entry on
\* top of the operand stack.
C8_DivByZeroIsIllegalParam ==
    [][(/\ Executes(OpcodeAsU8("IDiv"))
        /\ Active.stack_pointer >= 2
        /\ IsZeroWord(stack[Active.stack_base + Active.stack_pointer - 1])) =>
           /\ result' = Err("IllegalParam")
           /\ ~panicked'
           /\ stack' = stack]_vars

\* The value on top of the active frame's operand stack (the stack is not
\* empty).
Top == stack[Active.stack_base + Active.stack_pointer - 1]

\* C13: dup pushes a copy of the current top: when dup succeeds on a stack
\* whose top is v, the two topmost entries both equal v and the stack pointer
\* has grown by one; dup on an empty operand stack returns EmptyStack.
C13_DupCopiesTop ==
    [][Executes(OpcodeAsU8("Dup")) =>
          /\ (Active.stack_pointer > 0 /\ result' = Next) =>
                /\ Pushed(Top)
                /\ stack'[Active.stack_base + Active.stack_pointer - 1] = Top
          /\ Active.stack_pointer = 0 => result' = Err("EmptyStack")]_vars

\* C19: exec_instruction returns Err(MissingParams) whenever fewer than
\* operand_byte_count bytes follow the opcode byte in the code slice (the
\* code ends in the middle of an instruction), without invoking the handler
\* and without changing the frame.
C19_MissingParams ==
    [][\A opcode \in Byte :
          (/\ Executes(opcode)
           /\ Len(bytecode') - 1 < HandlerGet(opcode).param_count) =>
              /\ result' = Err("MissingParams")
              /\ ~panicked'
              /\ UNCHANGED frameVars]_vars

\* `const` was executed with two of its four operand bytes and returned
\* MissingParams.
C19_Witness ==
    /\ bytecode = <<OpcodeAsU8("Const"), 1, 1>>
    /\ result = Err("MissingParams")

\* The entry below the top of the active frame's operand stack (the stack
\* holds two entries at least).
BelowTop == stack[Active.stack_base + Active.stack_pointer - 2]

\* The step replaced the `count` topmost entries by one of `values`.
Replaced(count, values) ==
    /\ frames'[Depth].stack_pointer = Active.stack_pointer - count + 1
    /\ stack'[Active.stack_base + Active.stack_pointer - count] \in values

\* C20: i.add, i.sub, i.mul and i.neg compute their result modulo 2^64
\* (wrapping two's complement) for all operand values; they never return an
\* error or abort the process on overflow or underflow.  The result of a
\* binary operator is accepted with its operands in either order.
C20_ArithmeticWraps ==
    [][/\ \A op \in {"add", "sub", "mul"} :
             LET opcode == CASE op = "add" -> OpcodeAsU8("IAdd")
                             [] op = "sub" -> OpcodeAsU8("ISub")
                             [] op = "mul" -> OpcodeAsU8("IMul")
                 wrap(a, b) == CASE op = "add" -> WordAdd(a, b).val
                                 [] op = "sub" -> WordSub(a, b).val
                                 [] op = "mul" -> WordMul(a, b).val
             IN (Executes(opcode) /\ Active.stack_pointer >= 2) =>
                   /\ ~panicked'
                   /\ result' = Next
                   /\ Replaced(2, {wrap(BelowTop, Top), wrap(Top, BelowTop)})
       /\ (Executes(OpcodeAsU8("INeg")) /\ Active.stack_pointer >= 1) =>
             /\ ~panicked'
             /\ result' = Next
             /\ Replaced(1, {WordNeg(Top).val})]_vars

\* C21: shl, shr and ashr take the shift count modulo 64 for every count
\* value; shr shifts zeros into the high bits (logical) and ashr replicates
\* the sign bit (arithmetic).  The result is accepted with either of the
\* two topmost entries as the count.
C21_ShiftCountModulo64 ==
    [][\A op \in {"Shl", "Shr", "AShr"} :
          LET shifted(a, count) ==
                  CASE op = "Shl" -> ShiftLeft(a, count[1] % 64)
                    [] op = "Shr" -> ShiftRight(a, count[1] % 64, 0)
                    [] op = "AShr" ->
                          ShiftRight(a, count[1] % 64,
                                     IF SignBit(a) THEN MaxLimb ELSE 0)
          IN (Executes(OpcodeAsU8(op)) /\ Active.stack_pointer >= 2) =>
                /\ ~panicked'
                /\ result' = Next
                /\ Replaced(2, {shifted(BelowTop, Top), shifted(Top, BelowTop)})]_vars

\* C37: for the non-commutative binary instructions (i.sub, i.div, i.rem,
\* shl, shr, ashr) executed on an operand stack whose top is b and whose next
\* entry is a, pushed first, the pushed result is a op b: the earlier-pushed
\* operand is the left operand and the top of the stack is the right one
\* (subtrahend, divisor, shift count).
C37_TopIsRightOperand ==
    [][\A op \in {"ISub", "IDiv", "IRem", "Shl", "Shr", "AShr"} :
          LET apply(a, b) ==
                  CASE op = "ISub" -> WordSub(a, b).val
                    [] op = "IDiv" -> WordDivRem(a, b).quot
                    [] op = "IRem" -> WordDivRem(a, b).rem
                    [] op = "Shl" -> ShiftLeft(a, b[1] % 64)
                    [] op = "Shr" -> ShiftRight(a, b[1] % 64, 0)
                    [] op = "AShr" ->
                          ShiftRight(a, b[1] % 64,
                                     IF SignBit(a) THEN MaxLimb ELSE 0)
          IN (/\ Executes(OpcodeAsU8(op))
              /\ Active.stack_pointer >= 2
              /\ result' = Next) =>
                 Replaced(2, {apply(BelowTop, Top)})]_vars

\* C38: whenever exec_instruction returns an ExecutionError for any
\* instruction (a binary operation on a one-entry stack, st.arg with an
\* out-of-range index, swap on a one-entry stack), the stack_pointer, the
\* operand entries and the locals of the frame are the same as before the
\* instruction: a failing instruction performs no partial pops or writes.
C38_ErrorsLeaveTheFrame ==
    [][(result = NoResult /\ result'.kind = "Err") =>
          /\ frames'[Depth].stack_pointer = Active.stack_pointer
          /\ \A i \in Active.locals_base
                        ..(Active.stack_base + Active.stack_pointer - 1) :
                stack'[i] = stack[i]]_vars

\* The index a `const` instruction carries: its four operand bytes as a
\* little-endian u32 (the instruction has all four).
ConstIndex(c) == c[2] + 256 * c[3] + 65536 * (c[4] + 256 * c[5])

\* C22: for every constant c pushed via const, the new top-of-stack word is:
\* for a 32-bit integer x, x in the low 32 bits and zero in the high 32; for
\* a 64-bit integer x, x; for a 32-bit float x, the IEEE-754 bit pattern of x
\* in the low 32 bits and zero in the high 32; for a 64-bit float x, the bit
\* pattern of x.
C22_ConstantWidening ==
    [][(/\ Executes(OpcodeAsU8("Const"))
        /\ result' = Next) =>
           /\ Len(bytecode') >= 5
           /\ ConstIndex(bytecode') < Len(ModelConstants)
           /\ LET c == ModelConstants[ConstIndex(bytecode') + 1] IN
              /\ c.type \in {"Unsigned32", "Float32"} =>
                    Pushed(<<c.bits[1], c.bits[2], 0, 0>>)
              /\ c.type \in {"Unsigned64", "Float64"} => Pushed(c.bits)]_vars

\* const 2 pushed the 32-bit float 1.0: 0x3F800000 in the low half.
C22_Witness ==
    /\ bytecode = <<OpcodeAsU8("Const"), 2, 0, 0, 0>>
    /\ result = Next
    /\ Active.stack_pointer > 0
    /\ stack[Active.stack_base + Active.stack_pointer - 1] = <<0, 16256, 0, 0>>

\* C23: const with an index greater than or equal to the number of
\* constants (the number itself included) returns IndexOutOfBounds, and
\* const with a valid index on a frame whose operand stack is full returns
\* StackOverflow; in both cases the frame is unchanged.
C23_ConstErrors ==
    [][(Executes(OpcodeAsU8("Const")) /\ Len(bytecode') >= 5) =>
          /\ ConstIndex(bytecode') >= Len(ModelConstants) =>
                /\ result' = Err("IndexOutOfBounds")
                /\ UNCHANGED frameVars
          /\ (ConstIndex(bytecode') < Len(ModelConstants) /\ ~HasRoom) =>
                /\ result' = Err("StackOverflow")
                /\ UNCHANGED frameVars]_vars

---------------------------------------------------------------------------
(* Claims about Runner::run, checked under SpecRunner. *)

\* The loop of Runner::run executes the instruction at the program counter.
LoopStep == run = At("loop") /\ ~panicked /\ result' # NoResult

\* operand_byte_count of the instruction whose opcode is at `at`.
OperandByteCount(c, at) == HandlerGet(c[at + 1]).param_count

\* `at` is where an instruction of the code starts: 0, or the byte after
\* the operands of an instruction that starts earlier.
RECURSIVE InstructionStart(_, _, _)
InstructionStart(c, from, at) ==
    IF from >= at \/ from >= Len(c) THEN from = at
    ELSE InstructionStart(c, from + 1 + OperandByteCount(c, from), at)

\* C5: when the directive opcode 254 appears in a code stream its handler
\* returns IllegalOpcode, so Runner.run ends with
\* ExecutionError(IllegalOpcode).
C5_DirectiveIsIllegalOpcode ==
    [][(LoopStep /\ pc < Len(code(EntryPoint))
                 /\ code(EntryPoint)[pc + 1] = Directive) =>
           /\ result' = Err("IllegalOpcode")
           /\ run' = Returned(ExecutionError("IllegalOpcode"))]_vars

\* C6: on a Next result the Runner advances pc by exactly
\* 1 + operand_byte_count(code[pc]); the operand bytes are never executed
\* as opcodes.
C6_PcSkipsOperands ==
    /\ [][(LoopStep /\ result'.kind = "Next" /\ run' = At("loop")) =>
              pc' = pc + 1 + OperandByteCount(code(EntryPoint), pc)]_vars
    /\ [](run = At("loop") => InstructionStart(code(EntryPoint), 0, pc))

\* C18: the Runner only fetches an instruction at a pc below code.len().
\* An opcode byte is read only at such a pc; when the pc following a Next
\* would be at or past code.len(), or the target of a Jump is, run returns
\* ProgramCounterOverflow instead of executing further; and whenever the
\* loop goes on, the new pc is below code.len().
C18_PcStaysInCode ==
    [][LoopStep =>
          LET c == code(EntryPoint) IN
          /\ bytecode' # <<>> => pc < Len(c) /\ Head(bytecode') = c[pc + 1]
          /\ (result'.kind = "Next" /\ pc + 1 >= Len(c)) =>
                run' = Returned("ProgramCounterOverflow")
          /\ (result'.kind = "Jump" /\ result'.target >= Len(c)) =>
                run' = Returned("ProgramCounterOverflow")
          /\ run' = At("loop") => pc' < Len(c)]_vars

\* The last instruction of the code returned Next and run returned
\* ProgramCounterOverflow.
C18_Witness ==
    /\ run = Returned("ProgramCounterOverflow")
    /\ result = Next
    /\ pc = 1
    /\ pc + 1 = Len(code(EntryPoint))

\* What C39 says of one iteration of the loop, with the ways it lets the
\* iteration go besides those the claim lists.
LoopStepEnds(others) ==
    LET c == code(EntryPoint) IN
    /\ result'.kind # "Jump"
    /\ \/ /\ result' = Next
          /\ run' = At("loop")
          /\ pc' > pc
          /\ pc' < Len(c)
       \/ /\ result'.kind = "Return"
          /\ run' = Returned("Ok")
       \/ /\ result'.kind = "Err"
          /\ run' = Returned(ExecutionError(result'.info))
       \/ /\ result' = Next
          /\ run' = Returned("ProgramCounterOverflow")
       \/ result'.kind \in others

\* C39: Runner.run terminates for every entry-point code sequence: no
\* handler returns Jump, the pc strictly increases on every Next and stays
\* below code.len(), so the loop ends with Return (Ok), an ExecutionError or
\* ProgramCounterOverflow after at most code.len() instructions, and the
\* first error ends the run.
C39_RunEndsWithAResult ==
    [][LoopStep => LoopStepEnds({})]_vars

\* The same with a panic of the handler as one more way for the run to end;
\* this one holds of every run.
RunEndsOrPanics ==
    [][LoopStep => LoopStepEnds({"Panic"})]_vars


---------------------------------------------------------------------------
(* Claims about FileLayout::from_bytes, checked under SpecParser. *)

\* from_bytes has returned.
Parsed == layout # NotParsed

\* The image was written well formed and is given whole.
WholeWellFormed ==
    /\ WellFormed(image.written)
    /\ image.cut = Len(Concat(Fields(image.written)))

\* C24: FileLayout::from_bytes rejects every image whose first 8 bytes (the
\* little-endian u64 magic) differ from the bytes "azimuth\0"; no FileLayout
\* is produced for a wrong magic.
C24_WrongMagicRejected ==
    (/\ Parsed
     /\ Len(image.bytes) < 8 \/ SubSeq(image.bytes, 1, 8) # MAGIC_STRING) =>
        layout.ret = <<>>

\* The offsets at which a field of the image ends.
RECURSIVE FieldEnds(_, _)
FieldEnds(fields, from) ==
    IF fields = <<>> THEN {}
    ELSE LET end == from + Len(Head(fields)) IN
         {end} \cup FieldEnds(Tail(fields), end)

\* The image is a well-formed one that lost its last byte, or was cut
\* inside one of its fields: a header field, a constant entry, a directive
\* or a code body.
Truncated ==
    LET fields == Fields(image.written)
        whole == Len(Concat(fields))
    IN /\ WellFormed(image.written)
       /\ image.cut < whole
       /\ \/ image.cut = whole - 1
          \/ image.cut \notin FieldEnds(fields, 0) \cup {0}

\* C25: for every well-formed image, removing its last byte, or truncating
\* it anywhere inside a header field, constant entry, directive or code
\* body, makes FileLayout::from_bytes fail (return None) instead of
\* producing a partial layout.
C25_TruncationFails ==
    (Parsed /\ Truncated) => layout.ret = <<>>

\* The image is given whole, and a function record of it was written with
\* a second Symbol among the directives that follow its own.
SecondSymbol ==
    /\ image.cut = Len(Concat(Fields(image.written)))
    /\ \E i \in 1..Len(image.written.records) :
          \E d \in 1..Len(image.written.records[i].directives) :
              image.written.records[i].directives[d][2] = SYMBOL

\* C26: while one function record is parsed, a second Symbol directive
\* (bytes 254, 0) among the directives that follow the mandatory leading
\* Symbol makes the whole parse fail; so the directive list of a parsed
\* function never contains a Symbol, and its code is exactly the
\* code_length bytes that follow its last directive.
C26_SecondSymbolFails ==
    Parsed =>
        /\ SecondSymbol => layout.ret = <<>>
        /\ layout.ret # <<>> =>
              \A i \in 1..Len(layout.ret[1].functions) :
                  \A d \in 1..Len(layout.ret[1].functions[i].directives) :
                      layout.ret[1].functions[i].directives[d].kind # "Symbol"
        /\ WholeWellFormed =>
              /\ layout.ret # <<>>
              /\ Len(layout.ret[1].functions) = Len(image.written.records)
              /\ \A i \in 1..Len(image.written.records) :
                    LET f == layout.ret[1].functions[i]
                        r == image.written.records[i]
                    IN /\ f.code = r.code
                       /\ Len(f.directives) = Len(r.directives)

\* An image with the magic, whose function has a name in the pool and a
\* second Symbol after a Start, was parsed whole and rejected.
C26_Witness ==
    /\ Parsed
    /\ SecondSymbol
    /\ image.written.magic = MAGIC_STRING
    /\ image.written.records[1].name_idx \in StringIndices(image.written.pool)
    /\ layout.ret = <<>>

\* The well-formed images, whole.
WellFormedImages == {Concat(Fields(w)) : w \in {v \in Written : WellFormed(v)}}

\* C27: for every well-formed image, serialising the parsed FileLayout in
\* the binary format reproduces the input bytes exactly, so no byte of an
\* accepted image is ignored or lost by parsing.  A FileLayout can be
\* serialised back to one image only: from_bytes accepts the well-formed
\* image, and no other well-formed image has the same FileLayout.
C27_ParseKeepsEveryByte ==
    (Parsed /\ WholeWellFormed) =>
        /\ layout.ret # <<>>
        /\ \A other \in WellFormedImages :
              from_bytes(other) = layout.ret => other = image.bytes


---------------------------------------------------------------------------
(* Claims about ArenaAllocator, checked under SpecArena. *)

\* size rounded up to a multiple of align, as a number: `over` when it is
\* 2^64 or more.
RoundedUp(size, align) ==
    LET r == WordRem(size, align) IN
    IF IsZeroWord(r) THEN [val |-> size, over |-> FALSE]
    ELSE LET up == WordAdd(size, WordSub(align, r).val) IN
         [val |-> up.val, over |-> up.overflow]

\* head_offset + rounded <= capacity, as numbers.
FitsArena(a, size, align) ==
    LET rounded == RoundedUp(size, align)
        end == WordAdd(a.head_offset, rounded.val)
    IN ~rounded.over /\ ~end.overflow /\ WordLessEq(end.val, a.capacity)

\* Where a region handed out ends.
RegionEnd(g) == WordAdd(g.ptr, RoundedUp(g.size, g.align).val).val

\* The regions handed out since the last release_all are pairwise disjoint
\* and lie inside the arena.
RegionsDisjoint ==
    /\ \A i \in 1..Len(arena.given) :
          LET g == arena.given[i] IN
          /\ ~RoundedUp(g.size, g.align).over
          /\ WordLessEq(g.ptr, RegionEnd(g))
          /\ WordLessEq(RegionEnd(g), arena.alloc.capacity)
    /\ \A i, j \in 1..Len(arena.given) :
          i < j => WordLessEq(RegionEnd(arena.given[i]), arena.given[j].ptr)

\* C31: ArenaAllocator.raw_alloc(size, align), with rounded = size rounded
\* up to a multiple of align, returns base + head_offset and advances
\* head_offset by rounded when head_offset + rounded <= capacity; otherwise
\* it returns None and leaves head_offset unchanged.  Consequently the
\* regions returned between two release_all calls are pairwise disjoint and
\* lie inside [base, base + capacity).
C31_ArenaBumps ==
    ~panicked =>
        /\ \A size \in ArenaSizes, align \in ArenaAligns :
              LET a == arena.alloc
                  r == arena_raw_alloc(a, size, align, overflow_checks)
              IN /\ ~r.panic
                 /\ IF FitsArena(a, size, align)
                    THEN /\ r.ret = Some(a.head_offset)
                         /\ r.arena.head_offset =
                               WordAdd(a.head_offset,
                                       RoundedUp(size, align).val).val
                    ELSE r.ret = None /\ r.arena = a
        /\ RegionsDisjoint

\* C32: ArenaAllocator.release_all sets head_offset to 0 from any state: the
\* next allocation returns the base address of the arena again, the address
\* of the very first allocation, and an allocation that failed for lack of
\* space before release_all succeeds after it if it fits the capacity.
C32_ReleaseAllRewinds ==
    (~panicked /\ last.op = "release_all") =>
        /\ arena.alloc.head_offset = ZeroEntry
        /\ \A size \in ArenaSizes, align \in ArenaAligns :
              LET r == arena_raw_alloc(arena.alloc, size, align, overflow_checks)
                  rounded == RoundedUp(size, align)
              IN /\ r.ret.some => r.ret.val = ZeroEntry
                 /\ (~rounded.over /\ WordLessEq(rounded.val, arena.alloc.capacity))
                       => (~r.panic /\ r.ret = Some(ZeroEntry))

\* raw_alloc(8, 8) was turned down for lack of space, and then release_all
\* was called on an arena that had handed out regions.
C32_Witness ==
    /\ ~panicked
    /\ last.op = "release_all"
    /\ arena.refused = <<Word(8), Word(8)>>
    /\ arena.alloc.head_offset = ZeroEntry

\* C40: every pointer returned by ArenaAllocator.raw_alloc(size, align) is
\* aligned to align, its offset from the page-aligned base being a multiple
\* of align, for any sequence of allocations with mixed sizes and
\* power-of-two alignments.
C40_ArenaPointersAligned ==
    \A i \in 1..Len(arena.given) :
        IsZeroWord(WordRem(arena.given[i].ptr, arena.given[i].align))


---------------------------------------------------------------------------
(* Claims about Heap, checked under SpecHeap. *)

\* Whether [s1, e1) and [s2, e2) share an address.
Overlap(s1, e1, s2, e2) == s1 < e2 /\ s2 < e1

\* The Heap as Heap::with_capacity made it.
FreshHeap == HeapWithCapacity(heap.capacity)[1]

InInfant(ptr) ==
    contains(0, WordValue(heap.pools.infant.capacity), WordValue(ptr))

\* C33: Heap.raw_alloc never allocates from a teen or adult pool: for any
\* sequence of Heap allocations and deallocations of pointers it returned,
\* each result is either a pointer inside the infant arena or None, also
\* once the infant arena is exhausted, and the free lists of every teen
\* pool and of the adult pool stay unchanged.
C33_OnlyTheInfantArena ==
    (heap.state = "made" /\ ~panicked) =>
        /\ (last.op = "raw_alloc" /\ last.ret.some) => InInfant(last.ret.val)
        /\ \A x \in DOMAIN heap.pools.teen :
              heap.pools.teen[x].freelists = FreshHeap.teen[x].freelists
        /\ heap.pools.adult.freelists = FreshHeap.adult.freelists

\* The windows of the pools: where each starts and how long it is.
Windows ==
    <<[base |-> 0, size |-> WordValue(heap.pools.infant.capacity)],
      [base |-> heap.pools.teen[0].base, size |-> heap.pools.teen[0].capacity],
      [base |-> heap.pools.teen[1].base, size |-> heap.pools.teen[1].capacity],
      [base |-> heap.pools.adult.base, size |-> heap.pools.adult.capacity]>>

Containing(ptr) ==
    {i \in DOMAIN Windows : contains(Windows[i].base, Windows[i].size, ptr)}

\* C34: the address ranges of the infant, teen[0], teen[1] and adult pools
\* are pairwise disjoint, and for every pointer p returned by Heap.alloc or
\* Heap.raw_alloc, of any size and also when the infant arena is exactly
\* full, exactly one pool contains p by address-range membership.
C34_PoolsDisjoint ==
    heap.state = "made" =>
        /\ \A i, j \in DOMAIN Windows :
              i # j => ~Overlap(Windows[i].base, Windows[i].base + Windows[i].size,
                                Windows[j].base, Windows[j].base + Windows[j].size)
        /\ \A g \in heap.given : Cardinality(Containing(WordValue(g.ptr))) = 1
        /\ (last.op = "raw_alloc" /\ last.ret.some) =>
              Cardinality(Containing(WordValue(last.ret.val))) = 1

\* A pointer was returned while the infant arena was exactly full.
C34_Witness ==
    /\ heap.state = "made"
    /\ ~panicked
    /\ last.op = "raw_alloc"
    /\ last.ret.some
    /\ last.ret.val = heap.pools.infant.capacity
    /\ heap.pools.infant.head_offset = heap.pools.infant.capacity


---------------------------------------------------------------------------
(* Claims about Runnable::from_parsed_data, checked under SpecRunnable. *)

\* The positions of the directives of a kind in the list given.
Occurrences(kind) ==
    {i \in 1..Len(made.directives) : made.directives[i].kind = kind}

\* C28: Runnable::from_parsed_data fails if the directive list contains
\* MaxStack more than once, contains MaxLocals more than once, or lacks
\* either of them; otherwise it yields max_stack and max_locals from the
\* unique occurrences and a residual list holding all other directives in
\* their original order.
C28_FromParsedData ==
    made.state = "returned" =>
        IF \/ Cardinality(Occurrences("MaxStack")) # 1
           \/ Cardinality(Occurrences("MaxLocals")) # 1
        THEN made.ret = <<>>
        ELSE /\ made.ret # <<>>
             /\ \A i \in Occurrences("MaxStack") :
                   made.ret[1].maxstack = made.directives[i].value
             /\ \A i \in Occurrences("MaxLocals") :
                   made.ret[1].maxlocals = made.directives[i].value
             /\ made.ret[1].directives = SelectSeq(made.directives, IsResidual)
             /\ made.ret[1].bytecode = made.bytecode

\* A list with two MaxStack directives and one MaxLocals was turned down.
C28_Witness ==
    /\ made.state = "returned"
    /\ Cardinality(Occurrences("MaxStack")) = 2
    /\ Cardinality(Occurrences("MaxLocals")) = 1
    /\ made.ret = <<>>


---------------------------------------------------------------------------
(* Claims about the buddy allocator, checked under SpecBuddy and           *)
(* SpecRegion.                                                             *)

\* C9: after a balanced sequence of raw_alloc and raw_dealloc calls, every
\* block allocated having been deallocated with the same size and
\* alignment, the free lists are identical to the initial ones: a single
\* free block of order DEPTH-1 at the base address.
C9_BalancedRestoresFreeLists ==
    (live = {} /\ ~panicked) => freelists = GeneralAllocatorNew.freelists

\* The blocks of the free list of an order, from its head along the `next`
\* links; the walk ends at a header the allocator has not written and after
\* one step more than the region has blocks.
RECURSIVE ChainFrom(_, _)
ChainFrom(ptr, walked) ==
    IF ptr = Unwritten \/ ptr = NoBlock \/ walked > Cardinality(BlockOffsets)
    THEN <<>>
    ELSE <<ptr[1]>> \o ChainFrom(headers[ptr[1]], walked + 1)

FreeChain(order) == ChainFrom(freelists[order], 0)

\* The free blocks: an order and a position in the free list of the order.
FreeBlocks == {<<o, i>> : o \in Orders, i \in 1..Cardinality(BlockOffsets) + 1}
               \cap {fb \in Orders \X Nat : fb[2] <= Len(FreeChain(fb[1]))}
FreeStart(fb) == FreeChain(fb[1])[fb[2]]
FreeEnd(fb) == FreeStart(fb) + get_required_block_size(fb[1])

\* The bytes of a live allocation: the block its request was rounded to.
LiveEnd(al) == al.ptr + get_allocation_size(al.size, al.align).val

\* No block is twice in the free lists; no two free blocks and no free block
\* and live allocation share a byte; no two live allocations do.
BlocksDisjoint ==
    /\ \A f, g \in FreeBlocks :
          f # g => ~Overlap(FreeStart(f), FreeEnd(f), FreeStart(g), FreeEnd(g))
    /\ \A f \in FreeBlocks, al \in live :
          ~Overlap(FreeStart(f), FreeEnd(f), al.ptr, LiveEnd(al))
    /\ \A al, bl \in live :
          al # bl => ~Overlap(al.ptr, LiveEnd(al), bl.ptr, LiveEnd(bl))

\* The allocator writes no header inside an allocation that stays live.
LiveBytesKept ==
    \A al \in live \cap live' :
        \A q \in BlockOffsets :
            (al.ptr <= q /\ q < LiveEnd(al)) => headers'[q] = headers[q]

\* C29: at every reachable state of a buddy allocator each block address is
\* in at most one free list and at most once in it, and no free block
\* overlaps another free block or a live allocation; hence the allocator
\* writes nothing inside an allocation while it is live, and the values
\* written in live allocations survive every interleaving of raw_alloc and
\* raw_dealloc.
C29_BlocksNeverOverlap == [](~panicked => BlocksDisjoint) /\ [][LiveBytesKept]_vars

\* One of two live allocations was deallocated: its block is free again,
\* beside another free block, and the other allocation is still live.
C29_Witness ==
    /\ ~panicked
    /\ last.op = "raw_dealloc"
    /\ Cardinality(live) = 1
    /\ Cardinality(FreeBlocks) >= 2
    /\ \E f \in FreeBlocks : FreeStart(f) = last.ret[1]

\* An allocation that holds the whole region.
HoldsRegion(al) == get_allocation_size(al.size, al.align).val = capacity

\* The requests for a size up to the capacity, with an alignment it admits.
UpToCapacity ==
    {rq \in (AllocSizes \X AllocAligns) \cup Requests :
        rq[1] <= capacity /\ is_power_of_two(rq[2]) /\ rq[2] <= capacity}

\* While one allocation holds the whole region, raw_alloc returns None
\* whatever it is asked.
NothingLeft ==
    (~panicked /\ \E al \in live : HoldsRegion(al)) =>
        \A rq \in (AllocSizes \X AllocAligns) \cup Requests, junk \in Junk :
            raw_alloc(Allocator, rq[1], rq[2], junk).ret = NoBlock

\* A step that deallocates the allocation holding the whole region leaves
\* an allocator in which each request up to the capacity succeeds.
RegionGivenBack ==
    \A al \in live :
        (HoldsRegion(al) /\ live' = live \ {al} /\ ~panicked') =>
            \A rq \in UpToCapacity, junk \in Junk :
                raw_alloc([freelists |-> freelists', headers |-> headers'],
                          rq[1], rq[2], junk).ret # NoBlock

OrderOf(al) == get_allocation_order(al.size, al.align).val

\* The lowest order, from `order` up, whose free list holds a block; DEPTH
\* when there is none.
RECURSIVE FirstOrderFrom(_)
FirstOrderFrom(order) ==
    IF order >= DEPTH THEN DEPTH
    ELSE IF freelists[order] # NoBlock THEN order
    ELSE FirstOrderFrom(order + 1)

\* C35: when buddy raw_alloc takes a block from order o to satisfy target
\* order t < o, it inserts the upper half of the current block into the free
\* list of every intermediate order from o-1 down to t, exactly o - t
\* insertions, and returns the lowest block of order t; so the first
\* allocation of order t on a fresh allocator leaves exactly one free block
\* in each order t..DEPTH-2.
C35_SplitFillsEveryOrder ==
    [][\A al \in live' \ live :
          LET t == OrderOf(al)
              o == FirstOrderFrom(t)
          IN (~panicked' /\ o < DEPTH) =>
                /\ al.ptr = Head(FreeChain(o))
                /\ \A k \in Orders :
                      FreeChain(k)' =
                          IF k = o THEN Tail(FreeChain(k))
                          ELSE IF t <= k /\ k < o
                          THEN <<al.ptr + get_required_block_size(k)>>
                                  \o FreeChain(k)
                          ELSE FreeChain(k)]_vars

\* The bytes of the blocks in the free lists of the orders from `order` up.
RECURSIVE FreeBytesFrom(_)
FreeBytesFrom(order) ==
    IF order >= DEPTH THEN 0
    ELSE Len(FreeChain(order)) * get_required_block_size(order)
            + FreeBytesFrom(order + 1)

\* The bytes of the blocks of a set of live allocations.
RECURSIVE LiveBytes(_)
LiveBytes(als) ==
    IF als = {} THEN 0
    ELSE LET al == CHOOSE x \in als : TRUE IN
         get_allocation_size(al.size, al.align).val + LiveBytes(als \ {al})

\* C36: in every reachable state of a buddy allocator, the sizes of all
\* blocks in the free lists plus the order-derived sizes of all blocks
\* currently allocated to callers sum to the capacity of the allocator: no
\* byte of the region is lost by splitting or freeing.
C36_NoByteLost ==
    ~panicked => FreeBytesFrom(0) + LiveBytes(live) = capacity

===========================================================================
